---- MODULE Spec2Model ----
(***************************************************************************)
(* A model of the document-processing service:                             *)
(*   - ConversionService (src/app/conversion_service.py): convert_document,*)
(*     extract_text and its strategies, _safe_read_text;                   *)
(*   - LLMService (src/app/llm_service.py): extract_data.                  *)
(* Python values are modelled structurally: a dict is a record holding     *)
(* exactly the keys the code puts in it, a str is a sequence of characters *)
(* (or of message parts), a raised exception is a record [cls, msg] that   *)
(* travels to the nearest handler whose class list catches it.             *)
(***************************************************************************)
EXTENDS Integers, Sequences, FiniteSets, TLC

VARIABLES
  \* ---- the filesystem shared by all ConversionService calls
  durable,      \* storage/conversions: output name -> content
  scratch,      \* live tempfile.TemporaryDirectory()s: id -> set of files
  nextTmp,      \* the next fresh temporary-directory id
  started,      \* number of public calls started so far (call ids)
  \* ---- one frame per caller (thread) of the ConversionService
  pc,           \* position of the caller inside the service
  entry,        \* the public method the caller entered
  input_path,   \* argument: the path given
  output_format,\* argument of convert_document
  via,          \* who called convert_document: "api", "ppt", "fallback"
  exc,          \* the exception in flight, or NoExc
  temp_dir,     \* the scratch directory this call created (0: none)
  returncode,   \* result.returncode of the converter subprocess
  converted_file,\* converted_files[0]
  pending,      \* the dict of the return statement, while the with block exits
  result,       \* what convert_document gave its caller
  text,         \* what extract_text gave its caller
  file_type,    \* magic.from_file(file_path, mime=True)
  callId,       \* id of the public call in progress
  runs,         \* ghost: converter subprocesses spawned in this public call
  wrote,        \* ghost: durable names this public call wrote to
  made,         \* ghost: every scratch directory this public call created
  convOutcome,  \* ghost: what the converter run of this call did
  faulted,      \* ghost: an exception was raised inside this public call
  log,          \* ghost: the conversions that returned success to the API
  active,       \* the callers that issue calls in this behaviour
  same_fs,      \* deployment: scratch and storage are on one filesystem
  \* ---- one direct call of _safe_read_text
  rd_pc,        \* "call" before the call, "done" after it
  rd_file,      \* the file at file_path, as open() sees it
  rd_result,    \* what the call gave: a returned str or a raised exception
  \* ---- one LLMService and the extract_data call in progress
  provider,     \* self.config.provider, fixed by the constructor
  l_pc,         \* position inside extract_data
  document_text,\* argument
  system_prompt,\* argument
  user_prompt_template, \* argument
  json_schema,  \* argument
  now,          \* datetime.utcnow(), in whole seconds
  start_time,   \* start_time
  user_prompt,  \* the user text assembled
  full_system_prompt, \* the system text assembled
  response,     \* what the backend returned
  cleaned_response,
  extracted_data,
  l_exc,        \* the exception in flight, or NoExc
  l_result,     \* what extract_data gave its caller
  invoked,      \* ghost: the backends called, in order
  sent,         \* ghost: the system and user text given to the backend
  l_raised,     \* ghost: the last exception raised in this call
  l_body,       \* ghost: the text the model wrapped
  l_wrap,       \* ghost: how the model wrapped it
  l_scope,      \* the inputs this configuration draws from: "all" or "few"
  \* ---- the API process (main.py) and its database
  artifacts,    \* table artifacts: id -> file_path
  conversions,  \* table conversions: the rows, in insertion order
  requests,     \* number of convert requests handled so far
  api_request,  \* the last request: artifact_id and format
  api_result,   \* what convert_document gave that request, or NoResult
  api_response, \* the HTTP response to that request
  invocations   \* ghost: convert_document calls of the endpoint per pair

convVars == << durable, scratch, nextTmp, started, pc, entry, input_path,
               output_format, via, exc, temp_dir, returncode, converted_file,
               pending, result, text, file_type, callId, runs, wrote, made,
               convOutcome, faulted, log, active, same_fs >>

readVars == << rd_pc, rd_file, rd_result >>

llmVars == << provider, l_pc, document_text, system_prompt, user_prompt_template,
              json_schema, now, start_time, user_prompt, full_system_prompt,
              response, cleaned_response, extracted_data, l_exc, l_result, invoked,
              sent, l_raised, l_body, l_wrap, l_scope >>

apiVars == << artifacts, conversions, requests, api_request, api_result,
             api_response, invocations >>

vars == << convVars, readVars, llmVars, apiVars >>

----------------------------------------------------------------------------
\* Bounds of the model.
MaxCalls == 2      \* public ConversionService calls per behaviour
MaxBytes == 3      \* length of the byte strings given to _safe_read_text
MaxLatency == 2    \* seconds a backend call can take

\* The callers (threads) that may be inside the service.
Procs == {"t1", "t2"}

----------------------------------------------------------------------------
\* Python exceptions: the classes the service can meet and their base class.
ExcParent(cls) ==
  CASE cls = "FileNotFoundError"   -> "OSError"
    [] cls = "PermissionError"     -> "OSError"
    [] cls = "OSError"             -> "Exception"
    [] cls = "TimeoutExpired"      -> "SubprocessError"
    [] cls = "SubprocessError"     -> "Exception"
    [] cls = "ValueError"          -> "Exception"
    [] cls = "RuntimeError"        -> "Exception"
    [] cls = "ImportError"         -> "Exception"
    [] cls = "UnicodeDecodeError"  -> "UnicodeError"
    [] cls = "UnicodeError"        -> "ValueError"
    [] cls = "LibraryError"        -> "Exception"
    [] cls = "KeyError"            -> "LookupError"
    [] cls = "IndexError"          -> "LookupError"
    [] cls = "LookupError"         -> "Exception"
    [] cls = "AttributeError"      -> "Exception"
    [] cls = "TypeError"           -> "Exception"
    [] cls = "JSONDecodeError"     -> "ValueError"
    [] cls = "ValidationError"     -> "ValueError"
    [] cls = "APIError"            -> "Exception"
    [] cls = "Exception"           -> "BaseException"
    [] OTHER                       -> "object"

RECURSIVE IsSubclass(_, _)
IsSubclass(cls, base) ==
  IF cls = base THEN TRUE
  ELSE IF cls \in {"BaseException", "object"} THEN FALSE
  ELSE IsSubclass(ExcParent(cls), base)

\* `except (A, B) as e` catches e iff e's class derives from one of A, B.
Catches(handled, e) == \E base \in handled : IsSubclass(e.cls, base)

NoExc == [cls |-> "none", msg |-> << >>]
Exc(cls, msg) == [cls |-> cls, msg |-> msg]

\* What a caller observes when an exception leaves a method.
Raised(e) == [raised |-> e.cls]
NoResult == [none |-> TRUE]
IsRaised(r) == "raised" \in DOMAIN r

----------------------------------------------------------------------------
\* Paths.  A pathlib.Path is its directory and the dot-separated parts of its
\* final component, so that Path.stem is computed and not assumed.
UploadPath(parts) == [dir |-> "uploads", name |-> parts]

\* Path.stem: the final component without its last suffix.
Stem(p) == IF Len(p.name) > 1 THEN SubSeq(p.name, 1, Len(p.name) - 1) ELSE p.name

ReportDocx == UploadPath(<<"report", "docx">>)
ReportPptx == UploadPath(<<"report", "pptx">>)
NotesTxt   == UploadPath(<<"notes", "v2", "txt">>)
ScanPdf    == UploadPath(<<"scan", "pdf">>)
SheetXlsx  == UploadPath(<<"sheet", "xlsx">>)
EmptyBlob  == UploadPath(<<"blob">>)
LetterDoc  == UploadPath(<<"letter", "doc">>)
LedgerXls  == UploadPath(<<"ledger", "xls">>)
DeckPpt    == UploadPath(<<"deck", "ppt">>)
GhostDocx  == UploadPath(<<"ghost", "docx">>)

\* A MIME type is <<type, subtype>>: "text/plain" is <<"text", "plain">>, so
\* that file_type.startswith("text/") is a test on the first part.
MimePdf  == <<"application", "pdf">>
MimeDocx == <<"application", "vnd.openxmlformats-officedocument.wordprocessingml.document">>
MimeDoc  == <<"application", "msword">>
MimeXlsx == <<"application", "vnd.openxmlformats-officedocument.spreadsheetml.sheet">>
MimeXls  == <<"application", "vnd.ms-excel">>
MimePptx == <<"application", "vnd.openxmlformats-officedocument.presentationml.presentation">>
MimePpt  == <<"application", "vnd.ms-powerpoint">>

\* The uploaded files that exist, with the MIME type libmagic sniffs from
\* their content and their bytes.  GhostDocx names no file.  NotesTxt holds
\* an invalid UTF-8 byte; EmptyBlob is a zero-byte file.
Uploads ==
  (ReportDocx :> [mime |-> MimeDocx, bytes |-> <<65>>]) @@
  (ReportPptx :> [mime |-> MimePptx, bytes |-> <<65>>]) @@
  (NotesTxt   :> [mime |-> <<"text", "plain">>, bytes |-> <<65, 255>>]) @@
  (ScanPdf    :> [mime |-> MimePdf, bytes |-> <<65>>]) @@
  (SheetXlsx  :> [mime |-> MimeXlsx, bytes |-> <<65>>]) @@
  (EmptyBlob  :> [mime |-> <<"inode", "x-empty">>, bytes |-> << >>]) @@
  (LetterDoc  :> [mime |-> MimeDoc, bytes |-> <<65>>]) @@
  (LedgerXls  :> [mime |-> MimeXls, bytes |-> <<65>>]) @@
  (DeckPpt    :> [mime |-> MimePpt, bytes |-> <<65>>])

AllPaths     == DOMAIN Uploads \cup {GhostDocx}
ConvertPaths == {ReportDocx, ReportPptx, NotesTxt, GhostDocx}

\* The target formats callers pass: the four supported ones and two others.
Formats == {"pdf", "txt", "csv", "html", "docx", "PDF"}

\* The arguments drawn when several callers run at once: two inputs with one
\* stem and a missing one, a supported and an unsupported format.
ConvertPathsFor(a) ==
  IF Cardinality(a) > 1 THEN {ReportDocx, ReportPptx, GhostDocx} ELSE ConvertPaths
FormatsFor(a) ==
  IF Cardinality(a) > 1 THEN {"pdf", "docx"} ELSE Formats
ExtractPathsFor(a) ==
  IF Cardinality(a) > 1 THEN {ReportPptx, NotesTxt, ScanPdf, EmptyBlob, GhostDocx}
  ELSE AllPaths

----------------------------------------------------------------------------
\* Decoding.  A byte string is a sequence of numbers 0..255, a str a sequence
\* of code points.  The decoders are those of open(..., errors='ignore').

IsContinuation(b) == b >= 128 /\ b <= 191
IsLead2(b) == b >= 194 /\ b <= 223

\* bytes.decode('utf-8', errors='ignore') on ASCII and two-byte sequences
\* (the bytes of ByteAlphabet): an ASCII byte is itself, a lead byte with its
\* continuation is one code point, any other byte is dropped.
RECURSIVE DecodeUtf8Ignore(_)
DecodeUtf8Ignore(bs) ==
  IF bs = << >> THEN << >>
  ELSE IF bs[1] < 128 THEN <<bs[1]>> \o DecodeUtf8Ignore(Tail(bs))
  ELSE IF IsLead2(bs[1]) /\ Len(bs) >= 2 /\ IsContinuation(bs[2])
       THEN <<(bs[1] - 192) * 64 + (bs[2] - 128)>>
              \o DecodeUtf8Ignore(Tail(Tail(bs)))
  ELSE DecodeUtf8Ignore(Tail(bs))

\* utf-8-sig: utf-8 after dropping a leading byte-order mark EF BB BF.
DecodeUtf8Sig(bs) ==
  IF Len(bs) >= 3 /\ SubSeq(bs, 1, 3) = <<239, 187, 191>>
  THEN DecodeUtf8Ignore(SubSeq(bs, 4, Len(bs)))
  ELSE DecodeUtf8Ignore(bs)

\* latin1 / iso-8859-1: every byte is the code point of the same number.
DecodeLatin1(bs) == bs

\* cp1252 differs from latin1 on 128..159; the five bytes it leaves
\* undefined are dropped under errors='ignore' (the rest of that range is
\* outside ByteAlphabet and kept as is here).
DecodeCp1252(bs) == SelectSeq(bs, LAMBDA b : b \notin {129, 141, 143, 144, 157})

\* A str is a sequence of strings: a decoded character is the name of its
\* code point ("65" is A), a message part is its words.
Chars(cps) == [i \in 1..Len(cps) |-> ToString(cps[i])]

Decode(encoding, bs) ==
  CASE encoding = "utf-8"      -> Chars(DecodeUtf8Ignore(bs))
    [] encoding = "utf-8-sig"  -> Chars(DecodeUtf8Sig(bs))
    [] encoding = "latin1"     -> Chars(DecodeLatin1(bs))
    [] encoding = "cp1252"     -> Chars(DecodeCp1252(bs))
    [] encoding = "iso-8859-1" -> Chars(DecodeLatin1(bs))

\* A file as open() sees it: NoFile cannot be opened (missing, unreadable).
NoFile == [openable |-> FALSE, bytes |-> << >>]
FileOf(bs) == [openable |-> TRUE, bytes |-> bs]

\* What a function call gives: a returned value or a raised exception.
Returns(v) == [kind |-> "return", value |-> v, cls |-> "none"]
Raises(cls) == [kind |-> "raise", value |-> << >>, cls |-> cls]

encodings == <<"utf-8", "utf-8-sig", "latin1", "cp1252", "iso-8859-1">>

\* One pass of the loop body: open(file_path, 'r', encoding=encoding,
\* errors='ignore') and f.read().  open() raises FileNotFoundError when the
\* file cannot be opened; with errors='ignore' the decode itself never raises.
OpenAndRead(file, encoding) ==
  IF file.openable THEN Returns(Decode(encoding, file.bytes))
  ELSE Raises("FileNotFoundError")

\* The exception classes the loop's except clause names.
SafeReadHandled == {"UnicodeDecodeError", "UnicodeError"}

\* The final fallback: open(file_path, 'rb'), decode with errors ignored;
\* its `except Exception` returns the message "Error reading file: ...".
BinaryFallback(file) ==
  IF file.openable THEN Returns(Chars(DecodeUtf8Ignore(file.bytes)))
  ELSE IF IsSubclass("FileNotFoundError", "Exception")
       THEN Returns(<<"Error reading file: ", "FileNotFoundError">>)
       ELSE Raises("FileNotFoundError")

RECURSIVE SafeReadFrom(_, _)
SafeReadFrom(file, i) ==
  IF i > Len(encodings) THEN BinaryFallback(file)
  ELSE LET r == OpenAndRead(file, encodings[i]) IN
       IF r.kind = "return" THEN r
       ELSE IF Catches(SafeReadHandled, r) THEN SafeReadFrom(file, i + 1)
       ELSE r

\* ConversionService._safe_read_text(file_path)
safe_read_text(file) == SafeReadFrom(file, 1)

----------------------------------------------------------------------------
\* ConversionService.convert_document(input_path, output_format)

\* Mutant: a format chain that lets one more format through.
SupportedFormatsLax == {"pdf", "txt", "csv", "html", "docx"}

SupportedFormats == {"pdf", "txt", "csv", "html"}

\* The if/elif chain that picks `extension` for the target format; a suffix
\* is the dot and the letters after it.
Extension(fmt) ==
  CASE fmt = "pdf"  -> <<".", "pdf">>
    [] fmt = "txt"  -> <<".", "txt">>
    [] fmt = "csv"  -> <<".", "csv">>
    [] fmt = "html" -> <<".", "html">>

\* The suffix LibreOffice gives the file it writes for `--convert-to <fmt>`:
\* the argument itself.
ConverterSuffix(fmt) == <<".", fmt>>

\* Mutant: the output named after the whole input file name, not its stem.
OutputPathByName(input_file, fmt, extension) ==
  [dir |-> "conversions", name |-> <<input_file.name, "_", fmt, extension>>]

\* output_filename = f"{input_file.stem}_{output_format}{extension}" and
\* output_path = self.storage_path / "conversions" / output_filename
OutputPath(input_file, fmt, extension) ==
  [dir |-> "conversions", name |-> <<Stem(input_file), "_", fmt, extension>>]

\* Contents of a converted file: the call that produced it and its bytes.
Content(id, bs) == [call |-> id, bytes |-> bs]

NoConverted == [suffix |-> <<".", "none">>, content |-> Content(0, << >>)]

\* What one run of the external converter can do.
ConverterOutcomes ==
  {"exit0_file", "exit0_nofile", "exit_nonzero", "exit_nonzero_file",
   "timeout", "timeout_partial", "launch_error"}

\* What shutil.move and Path.stat can do.
MoveOutcomes == {"moved", "copying", "failed", "failed_after_partial_copy"}

\* shutil.move renames when source and target are on one filesystem and
\* copies otherwise.
MoveOutcomesOn(same) ==
  IF same THEN {"moved", "failed"}
  ELSE {"copying", "failed", "failed_after_partial_copy"}
StatOutcomes == {"ok", "io_error"}

\* The result dicts of convert_document.
SuccessDict(output_path, size, fmt) ==
  [success |-> TRUE, output_path |-> output_path, file_size |-> size,
   format |-> fmt]
FailureDict(e, fmt) == [success |-> FALSE, error |-> e.msg, format |-> fmt]

\* Mutant: a handler that names only the exceptions the method raises itself.
ConvertHandledNarrow == {"RuntimeError", "ValueError"}

\* `except Exception as e` of convert_document.
ConvertHandled == {"Exception"}

\* Where control goes when convert_document returns to its caller.
AfterConvert(caller) ==
  CASE caller = "api"      -> "done"
    [] caller = "ppt"      -> "pp_after"
    [] caller = "fallback" -> "et_after"

\* Mutant: a scratch directory that is never removed (mkdtemp without with).
CleanupKeep(dirs, d) == dirs

\* TemporaryDirectory.__exit__: the directory and all it holds are removed.
Cleanup(dirs, d) == [x \in (DOMAIN dirs) \ {d} |-> dirs[x]]

\* Path.glob(f"*{extension}") in the scratch directory.
Glob(dirs, d, extension) == {f \in dirs[d] : f.suffix = extension}

EmptyMap == [x \in {} |-> x]
Put(map, k, v) == [x \in (DOMAIN map) \cup {k} |-> IF x = k THEN v ELSE map[x]]

IdleFrame(p) ==
  /\ pc' = [pc EXCEPT ![p] = "idle"]
  /\ entry' = [entry EXCEPT ![p] = "none"]
  /\ input_path' = [input_path EXCEPT ![p] = GhostDocx]
  /\ output_format' = [output_format EXCEPT ![p] = "none"]
  /\ via' = [via EXCEPT ![p] = "none"]
  /\ exc' = [exc EXCEPT ![p] = NoExc]
  /\ temp_dir' = [temp_dir EXCEPT ![p] = 0]
  /\ returncode' = [returncode EXCEPT ![p] = 0]
  /\ converted_file' = [converted_file EXCEPT ![p] = NoConverted]
  /\ pending' = [pending EXCEPT ![p] = NoResult]
  /\ result' = [result EXCEPT ![p] = NoResult]
  /\ text' = [text EXCEPT ![p] = Returns(<< >>)]
  /\ file_type' = [file_type EXCEPT ![p] = <<"none", "none">>]
  /\ callId' = [callId EXCEPT ![p] = 0]
  /\ runs' = [runs EXCEPT ![p] = 0]
  /\ wrote' = [wrote EXCEPT ![p] = {}]
  /\ made' = [made EXCEPT ![p] = {}]
  /\ convOutcome' = [convOutcome EXCEPT ![p] = "none"]
  /\ faulted' = [faulted EXCEPT ![p] = FALSE]

\* The service after construction, with the callers in a that use it.
ConvInitIn(a, fs) ==
  /\ durable = EmptyMap
  /\ scratch = EmptyMap
  /\ nextTmp = 1
  /\ started = 0
  /\ pc = [p \in Procs |-> "idle"]
  /\ entry = [p \in Procs |-> "none"]
  /\ input_path = [p \in Procs |-> GhostDocx]
  /\ output_format = [p \in Procs |-> "none"]
  /\ via = [p \in Procs |-> "none"]
  /\ exc = [p \in Procs |-> NoExc]
  /\ temp_dir = [p \in Procs |-> 0]
  /\ returncode = [p \in Procs |-> 0]
  /\ converted_file = [p \in Procs |-> NoConverted]
  /\ pending = [p \in Procs |-> NoResult]
  /\ result = [p \in Procs |-> NoResult]
  /\ text = [p \in Procs |-> Returns(<< >>)]
  /\ file_type = [p \in Procs |-> <<"none", "none">>]
  /\ callId = [p \in Procs |-> 0]
  /\ runs = [p \in Procs |-> 0]
  /\ wrote = [p \in Procs |-> {}]
  /\ made = [p \in Procs |-> {}]
  /\ convOutcome = [p \in Procs |-> "none"]
  /\ faulted = [p \in Procs |-> FALSE]
  /\ log = {}
  /\ active = a
  /\ same_fs \in fs

ConvInit == ConvInitIn({"t1"}, BOOLEAN)

\* The service at rest, for the behaviours that never call it.
ConvQuiet == ConvInitIn({"t1"}, {TRUE})

fsVars == << durable, scratch, nextTmp >>
ghostVars == << runs, wrote, made, log, active, same_fs, callId, started, convOutcome >>

\* Ghost: remember that an exception is in flight after this step.
NoteFault(p) == faulted' = [faulted EXCEPT ![p] = @ \/ exc'[p] # NoExc]

\* A caller enters convert_document(input_path, output_format).
StartConvert(p) ==
  /\ p \in active /\ pc[p] = "idle" /\ started < MaxCalls
  /\ \E path \in ConvertPathsFor(active), fmt \in FormatsFor(active) :
       /\ input_path' = [input_path EXCEPT ![p] = path]
       /\ output_format' = [output_format EXCEPT ![p] = fmt]
  /\ started' = started + 1
  /\ callId' = [callId EXCEPT ![p] = started + 1]
  /\ entry' = [entry EXCEPT ![p] = "convert_document"]
  /\ via' = [via EXCEPT ![p] = "api"]
  /\ pc' = [pc EXCEPT ![p] = "cd_exists"]
  /\ UNCHANGED faulted
  /\ UNCHANGED << fsVars, exc, temp_dir, returncode, converted_file, pending,
                  result, text, file_type, runs, wrote, made, log, active, same_fs, convOutcome >>

\* Mutant: the existence check left out.
ExistsAlways(path) == TRUE

\* Path.exists() on an upload path.
Exists(path) == path \in DOMAIN Uploads

\* Mutant: the exit status of the converter ignored.
ConverterFailedNever(rc) == FALSE

\* The test of `if result.returncode != 0`.
ConverterFailed(rc) == rc # 0

\* input_file = Path(input_path); if not input_file.exists(): raise ...
CdExists(p) ==
  /\ pc[p] = "cd_exists"
  /\ IF Exists(input_path[p])
     THEN /\ pc' = [pc EXCEPT ![p] = "cd_enter"]
          /\ exc' = exc
     ELSE /\ exc' = [exc EXCEPT ![p] =
                 Exc("FileNotFoundError", <<"Input file not found: ", "input_path">>)]
          /\ pc' = [pc EXCEPT ![p] = "cd_except"]
  /\ NoteFault(p)
  /\ UNCHANGED << fsVars, ghostVars, entry, input_path, output_format, via,
                  temp_dir, returncode, converted_file, pending, result, text,
                  file_type >>

\* with tempfile.TemporaryDirectory() as temp_dir: a fresh private directory;
\* then the format chain, whose else branch raises ValueError.
CdEnter(p) ==
  /\ pc[p] = "cd_enter"
  /\ scratch' = Put(scratch, nextTmp, {})
  /\ nextTmp' = nextTmp + 1
  /\ temp_dir' = [temp_dir EXCEPT ![p] = nextTmp]
  /\ made' = [made EXCEPT ![p] = @ \cup {nextTmp}]
  /\ IF output_format[p] \in SupportedFormats
     THEN /\ pc' = [pc EXCEPT ![p] = "cd_run"]
          /\ exc' = exc
     ELSE /\ exc' = [exc EXCEPT ![p] =
                 Exc("ValueError", <<"Unsupported output format: ", "output_format">>)]
          /\ pc' = [pc EXCEPT ![p] = "cd_exit"]
  /\ NoteFault(p)
  /\ UNCHANGED << durable, started, callId, runs, wrote, log, active, same_fs, convOutcome, entry,
                  input_path, output_format, via, returncode, converted_file,
                  pending, result, text, file_type >>

\* The wall-clock bound given to subprocess.run.
ConverterTimeout == 60

argVars == << entry, input_path, output_format, via, file_type >>

\* result = subprocess.run(cmd, capture_output=True, text=True, timeout=60):
\* one run of the external converter against the scratch directory.
\* The converter outcomes that leave a file in the output directory, and the
\* file: whole, or cut short by the kill at the timeout.
WritesFile(outcome) == outcome \in {"exit0_file", "exit_nonzero_file", "timeout_partial"}
Written(outcome, fmt, id) ==
  [suffix |-> ConverterSuffix(fmt),
   content |-> Content(id, IF outcome = "timeout_partial" THEN << >> ELSE <<65>>)]

\* What subprocess.run raises for a converter outcome, if anything.
RunException(outcome) ==
  CASE outcome \in {"timeout", "timeout_partial"} ->
         Exc("TimeoutExpired",
             <<"Command ", "cmd", " timed out after ", ToString(ConverterTimeout),
               " seconds">>)
    [] outcome = "launch_error" ->
         Exc("FileNotFoundError",
             <<"[Errno 2] No such file or directory: ", "libreoffice">>)
    [] OTHER -> NoExc

CdRun(p) ==
  /\ pc[p] = "cd_run"
  /\ runs' = [runs EXCEPT ![p] = @ + 1]
  /\ \E outcome \in ConverterOutcomes :
       /\ convOutcome' = [convOutcome EXCEPT ![p] = outcome]
       /\ scratch' =
            IF WritesFile(outcome)
            THEN Put(scratch, temp_dir[p],
                     scratch[temp_dir[p]]
                       \cup {Written(outcome, output_format[p], callId[p])})
            ELSE scratch
       /\ returncode' = [returncode EXCEPT ![p] =
            IF outcome \in {"exit_nonzero", "exit_nonzero_file"} THEN 1 ELSE 0]
       /\ exc' = [exc EXCEPT ![p] = RunException(outcome)]
       /\ pc' = [pc EXCEPT ![p] =
            IF RunException(outcome) # NoExc THEN "cd_exit" ELSE "cd_find"]
  /\ NoteFault(p)
  /\ UNCHANGED << durable, nextTmp, started, callId, wrote, made, log, active, same_fs,
                  argVars, temp_dir, converted_file, pending, result, text >>

\* if result.returncode != 0: raise RuntimeError; the glob for the converted
\* file; if not converted_files: raise RuntimeError; converted_files[0].
CdFind(p) ==
  /\ pc[p] = "cd_find"
  /\ LET found == Glob(scratch, temp_dir[p], Extension(output_format[p])) IN
     IF ConverterFailed(returncode[p])
     THEN /\ exc' = [exc EXCEPT ![p] =
                 Exc("RuntimeError", <<"LibreOffice conversion failed: ", "stderr">>)]
          /\ pc' = [pc EXCEPT ![p] = "cd_exit"]
          /\ converted_file' = converted_file
     ELSE IF found = {}
     THEN /\ exc' = [exc EXCEPT ![p] =
                 Exc("RuntimeError", <<"No converted file found">>)]
          /\ pc' = [pc EXCEPT ![p] = "cd_exit"]
          /\ converted_file' = converted_file
     ELSE /\ \E f \in found :
               converted_file' = [converted_file EXCEPT ![p] = f]
          /\ pc' = [pc EXCEPT ![p] = "cd_move"]
          /\ exc' = exc
  /\ NoteFault(p)
  /\ UNCHANGED << fsVars, ghostVars, argVars, temp_dir, returncode, pending,
                  result, text >>

\* output_path.parent.mkdir(exist_ok=True) and
\* shutil.move(str(converted_file), str(output_path)): a rename that replaces
\* an existing target; across filesystems a copy, which can fail half way.
\* The copy opens the target for writing, which empties it ("copying"), and
\* writes it in a later step (CdCopy).
CdMove(p) ==
  /\ pc[p] = "cd_move"
  /\ LET output_path == OutputPath(input_path[p], output_format[p],
                                   Extension(output_format[p]))
         d == temp_dir[p]
         c == converted_file[p].content
     IN
     \E outcome \in MoveOutcomesOn(same_fs) :
       /\ durable' = CASE outcome = "moved" -> Put(durable, output_path, c)
                       [] outcome = "failed" -> durable
                       [] outcome \in {"copying", "failed_after_partial_copy"} ->
                            Put(durable, output_path, Content(c.call, << >>))
       /\ scratch' = IF outcome = "moved"
                     THEN Put(scratch, d, scratch[d] \ {converted_file[p]}) ELSE scratch
       /\ wrote' = [wrote EXCEPT ![p] =
                      IF outcome = "failed" THEN @ ELSE @ \cup {output_path}]
       /\ exc' = [exc EXCEPT ![p] =
                    IF outcome \in {"moved", "copying"} THEN NoExc
                    ELSE Exc("OSError", <<"[Errno 28] No space left on device">>)]
       /\ pc' = [pc EXCEPT ![p] =
                   CASE outcome = "moved" -> "cd_stat"
                     [] outcome = "copying" -> "cd_copy"
                     [] OTHER -> "cd_exit"]
  /\ NoteFault(p)
  /\ UNCHANGED << nextTmp, started, callId, runs, made, log, active, same_fs, convOutcome, argVars,
                  temp_dir, returncode, converted_file, pending, result, text >>

\* A file that holds bytes of more than one converter run.
Torn(c) == Content(0, c.bytes)

\* The rest of shutil.move's copy: the bytes are written into the target and
\* the source is removed.  When another writer has opened or written the
\* target since this copy opened it, the two writers share the file: it ends
\* as this call's output or as a mix of both, depending on their lengths and
\* the order of their writes.
CdCopy(p) ==
  /\ pc[p] = "cd_copy"
  /\ LET output_path == OutputPath(input_path[p], output_format[p],
                                   Extension(output_format[p]))
         d == temp_dir[p]
         c == converted_file[p].content
     IN
     /\ \E written \in IF durable[output_path] = Content(c.call, << >>)
                        THEN {c} ELSE {c, Torn(c)} :
          durable' = Put(durable, output_path, written)
     /\ scratch' = Put(scratch, d, scratch[d] \ {converted_file[p]})
  /\ pc' = [pc EXCEPT ![p] = "cd_stat"]
  /\ UNCHANGED << nextTmp, ghostVars, faulted, argVars, exc, temp_dir, returncode,
                  converted_file, pending, result, text >>

\* return {"success": True, "output_path": str(output_path),
\*         "file_size": output_path.stat().st_size, "format": output_format}
CdStat(p) ==
  /\ pc[p] = "cd_stat"
  /\ LET output_path == OutputPath(input_path[p], output_format[p],
                                   Extension(output_format[p]))
     IN
     \E outcome \in StatOutcomes :
       IF outcome = "ok" /\ output_path \in DOMAIN durable
       THEN /\ pending' = [pending EXCEPT ![p] =
                  SuccessDict(output_path, Len(durable[output_path].bytes),
                              output_format[p])]
            /\ exc' = exc
       ELSE /\ exc' = [exc EXCEPT ![p] =
                  Exc("OSError", <<"[Errno 5] Input/output error: ", "output_path">>)]
            /\ pending' = pending
  /\ pc' = [pc EXCEPT ![p] = "cd_exit"]
  /\ NoteFault(p)
  /\ UNCHANGED << fsVars, ghostVars, argVars, temp_dir, returncode,
                  converted_file, result, text >>

\* Leaving the with block, by return or by exception: the scratch directory is
\* removed; a return then completes, an exception goes on to the handler.
CdExit(p) ==
  /\ pc[p] = "cd_exit"
  /\ scratch' = Cleanup(scratch, temp_dir[p])
  /\ IF exc[p] = NoExc
     THEN /\ result' = [result EXCEPT ![p] = pending[p]]
          /\ pc' = [pc EXCEPT ![p] = AfterConvert(via[p])]
     ELSE /\ result' = result
          /\ pc' = [pc EXCEPT ![p] = "cd_except"]
  /\ UNCHANGED faulted
  /\ UNCHANGED << durable, nextTmp, ghostVars, argVars, exc, temp_dir,
                  returncode, converted_file, pending, text >>

\* except Exception as e: return {"success": False, "error": str(e), ...};
\* an exception the clause does not name leaves convert_document.
CdExcept(p) ==
  /\ pc[p] = "cd_except"
  /\ result' = [result EXCEPT ![p] =
                  IF Catches(ConvertHandled, exc[p])
                  THEN FailureDict(exc[p], output_format[p])
                  ELSE Raised(exc[p])]
  /\ exc' = [exc EXCEPT ![p] = NoExc]
  /\ pc' = [pc EXCEPT ![p] = AfterConvert(via[p])]
  /\ UNCHANGED faulted
  /\ UNCHANGED << fsVars, ghostVars, argVars, temp_dir, returncode,
                  converted_file, pending, text >>

----------------------------------------------------------------------------
\* ConversionService.extract_text(file_path) and its strategies

\* A caller enters extract_text(file_path).
StartExtract(p) ==
  /\ p \in active /\ pc[p] = "idle" /\ started < MaxCalls
  /\ \E path \in ExtractPathsFor(active) :
       input_path' = [input_path EXCEPT ![p] = path]
  /\ started' = started + 1
  /\ callId' = [callId EXCEPT ![p] = started + 1]
  /\ entry' = [entry EXCEPT ![p] = "extract_text"]
  /\ pc' = [pc EXCEPT ![p] = "et_sniff"]
  /\ UNCHANGED faulted
  /\ UNCHANGED << fsVars, exc, temp_dir, returncode, converted_file, pending,
                  result, text, file_type, runs, wrote, made, log, active, same_fs, convOutcome,
                  output_format, via >>

\* Mutant: a chain without the word-processor branch, which then falls to
\* the converter.
DispatchNoWord(ft) ==
  IF ft = MimePdf THEN "et_pdf"
  ELSE IF ft \in {MimeXlsx, MimeXls} THEN "et_excel"
  ELSE IF ft \in {MimePptx, MimePpt} THEN "pp_call"
  ELSE IF ft[1] = "text" THEN "et_text"
  ELSE "et_fallback"

\* The if/elif chain of extract_text on the sniffed MIME type.
Dispatch(ft) ==
  IF ft = MimePdf THEN "et_pdf"
  ELSE IF ft \in {MimeDocx, MimeDoc} THEN "et_docx"
  ELSE IF ft \in {MimeXlsx, MimeXls} THEN "et_excel"
  ELSE IF ft \in {MimePptx, MimePpt} THEN "pp_call"
  ELSE IF ft[1] = "text" THEN "et_text"
  ELSE "et_fallback"

\* file_type = magic.from_file(file_path, mime=True), which raises for a
\* missing file, and the dispatch.
EtSniff(p) ==
  /\ pc[p] = "et_sniff"
  /\ IF input_path[p] \in DOMAIN Uploads
     THEN /\ file_type' = [file_type EXCEPT ![p] = Uploads[input_path[p]].mime]
          /\ pc' = [pc EXCEPT ![p] = Dispatch(Uploads[input_path[p]].mime)]
          /\ exc' = exc
     ELSE /\ exc' = [exc EXCEPT ![p] =
                 Exc("FileNotFoundError", <<"[Errno 2] No such file or directory: ",
                                            "file_path">>)]
          /\ pc' = [pc EXCEPT ![p] = "et_except"]
          /\ file_type' = file_type
  /\ NoteFault(p)
  /\ UNCHANGED << fsVars, ghostVars, entry, input_path, output_format, via,
                  temp_dir, returncode, converted_file, pending, result, text >>

\* What an in-process parser (PyPDF2, python-docx, pandas) can do.
NativeOutcomes == {"parsed", "no_library", "read_error"}

\* _extract_pdf_text, _extract_docx_text, _extract_excel_text: the text of the
\* document; `except ImportError: raise RuntimeError(...)`; any other
\* exception of the library leaves the strategy as it is.
NativeStrategy(strategy, outcome, bs) ==
  CASE outcome = "parsed"     -> Returns(Chars(DecodeUtf8Ignore(bs)) \o <<"\n">>)
    [] outcome = "no_library" ->
         IF Catches({"ImportError"}, Exc("ImportError", << >>))
         THEN Raises("RuntimeError") ELSE Raises("ImportError")
    [] outcome = "read_error" -> Raises("LibraryError")

EtNative(p) ==
  /\ pc[p] \in {"et_pdf", "et_docx", "et_excel"}
  /\ \E outcome \in NativeOutcomes :
       LET r == NativeStrategy(pc[p], outcome, Uploads[input_path[p]].bytes) IN
       IF r.kind = "return"
       THEN /\ text' = [text EXCEPT ![p] = r]
            /\ pc' = [pc EXCEPT ![p] = "done"]
            /\ exc' = exc
       ELSE /\ exc' = [exc EXCEPT ![p] = Exc(r.cls, <<"extraction failed">>)]
            /\ pc' = [pc EXCEPT ![p] = "et_except"]
            /\ text' = text
  /\ NoteFault(p)
  /\ UNCHANGED << fsVars, ghostVars, argVars, temp_dir, returncode,
                  converted_file, pending, result >>

\* elif file_type.startswith("text/"): return self._safe_read_text(file_path).
\* The file sniffed a moment ago may no longer be openable.
EtText(p) ==
  /\ pc[p] = "et_text"
  /\ \E file \in {FileOf(Uploads[input_path[p]].bytes), NoFile} :
       LET r == safe_read_text(file) IN
       IF r.kind = "return"
       THEN /\ text' = [text EXCEPT ![p] = r]
            /\ pc' = [pc EXCEPT ![p] = "done"]
            /\ exc' = exc
       ELSE /\ exc' = [exc EXCEPT ![p] =
                   Exc(r.cls, <<"[Errno 2] No such file or directory: ", "file_path">>)]
            /\ pc' = [pc EXCEPT ![p] = "et_except"]
            /\ text' = text
  /\ NoteFault(p)
  /\ UNCHANGED << fsVars, ghostVars, argVars, temp_dir, returncode,
                  converted_file, pending, result >>

\* result = self.convert_document(file_path, "txt"), from
\* _extract_powerpoint_text or from the else branch of extract_text.
EtConvert(p) ==
  /\ pc[p] \in {"pp_call", "et_fallback"}
  /\ via' = [via EXCEPT ![p] = IF pc[p] = "pp_call" THEN "ppt" ELSE "fallback"]
  /\ output_format' = [output_format EXCEPT ![p] = "txt"]
  /\ pc' = [pc EXCEPT ![p] = "cd_exists"]
  /\ UNCHANGED faulted
  /\ UNCHANGED << fsVars, ghostVars, entry, input_path, file_type, exc, temp_dir,
                  returncode, converted_file, pending, result, text >>

\* The file a durable path names, as open() sees it.
DurableFile(store, path) ==
  IF path \in DOMAIN store THEN FileOf(store[path].bytes) ELSE NoFile

\* if result["success"]: return self._safe_read_text(result["output_path"])
\* else: raise RuntimeError(...): what the body after the nested conversion
\* gives, a returned text or a raised exception.
ReadConverted(store, res) ==
  IF IsRaised(res) THEN Raises(res.raised)
  ELSE IF res.success THEN safe_read_text(DurableFile(store, res.output_path))
  ELSE Raises("RuntimeError")

\* `except Exception as e` of _extract_powerpoint_text.
PowerpointHandled == {"Exception"}

\* Mutant: extract_text catching only the error it raises itself.
ExtractHandledNarrow == {"RuntimeError"}

\* `except Exception as e` of extract_text.
ExtractHandled == {"Exception"}

\* _extract_powerpoint_text after the conversion: the text read, or
\* `return f"Error extracting PowerPoint text: {str(e)}"`.
PpAfter(p) ==
  /\ pc[p] = "pp_after"
  /\ LET r == ReadConverted(durable, result[p]) IN
     IF r.kind = "return"
     THEN /\ text' = [text EXCEPT ![p] = r]
          /\ pc' = [pc EXCEPT ![p] = "done"]
          /\ exc' = exc
     ELSE IF Catches(PowerpointHandled, r)
     THEN /\ text' = [text EXCEPT ![p] =
                 Returns(<<"Error extracting PowerPoint text: ", r.cls>>)]
          /\ pc' = [pc EXCEPT ![p] = "done"]
          /\ exc' = exc
     ELSE /\ exc' = [exc EXCEPT ![p] = Exc(r.cls, <<"PowerPoint conversion failed: ">>)]
          /\ pc' = [pc EXCEPT ![p] = "et_except"]
          /\ text' = text
  /\ faulted' = [faulted EXCEPT ![p] =
                  @ \/ ReadConverted(durable, result[p]).kind = "raise"]
  /\ UNCHANGED << fsVars, ghostVars, argVars, temp_dir, returncode,
                  converted_file, pending, result >>

\* The else branch of extract_text after the conversion.
EtAfter(p) ==
  /\ pc[p] = "et_after"
  /\ LET r == ReadConverted(durable, result[p]) IN
     IF r.kind = "return"
     THEN /\ text' = [text EXCEPT ![p] = r]
          /\ pc' = [pc EXCEPT ![p] = "done"]
          /\ exc' = exc
     ELSE /\ exc' = [exc EXCEPT ![p] = Exc(r.cls, <<"Could not extract text: ">>)]
          /\ pc' = [pc EXCEPT ![p] = "et_except"]
          /\ text' = text
  /\ NoteFault(p)
  /\ UNCHANGED << fsVars, ghostVars, argVars, temp_dir, returncode,
                  converted_file, pending, result >>

\* except Exception as e: logger.error(...); return ""
EtExcept(p) ==
  /\ pc[p] = "et_except"
  /\ text' = [text EXCEPT ![p] =
                IF Catches(ExtractHandled, exc[p]) THEN Returns(<< >>)
                ELSE Raises(exc[p].cls)]
  /\ exc' = [exc EXCEPT ![p] = NoExc]
  /\ pc' = [pc EXCEPT ![p] = "done"]
  /\ UNCHANGED faulted
  /\ UNCHANGED << fsVars, ghostVars, argVars, temp_dir, returncode,
                  converted_file, pending, result >>

\* The public call has returned; its caller takes the value and goes on.
Return(p) ==
  /\ pc[p] = "done"
  /\ log' = IF entry[p] = "convert_document" /\ ~IsRaised(result[p])
                 /\ result[p].success
            THEN log \cup {[input_path |-> input_path[p],
                            output_format |-> output_format[p],
                            output_path |-> result[p].output_path]}
            ELSE log
  /\ IdleFrame(p)
  /\ UNCHANGED << fsVars, started, active, same_fs >>


----------------------------------------------------------------------------
\* A direct call of _safe_read_text on a file drawn from the byte strings of
\* length at most MaxBytes over ByteAlphabet, or on a path that cannot be
\* opened.  65 is "A"; 195 169 is a two-byte character; a lone 195, a lone
\* 169 and 255 are invalid UTF-8.
ByteAlphabet == {65, 195, 169, 255}
ByteStrings == UNION {[1..n -> ByteAlphabet] : n \in 0..MaxBytes}

ReadIdle ==
  /\ rd_pc = "idle"
  /\ rd_file = NoFile
  /\ rd_result = Returns(<< >>)

ReadInit ==
  /\ rd_pc = "call"
  /\ rd_file \in {NoFile} \cup {FileOf(bs) : bs \in ByteStrings}
  /\ rd_result = Returns(<< >>)

SafeRead ==
  /\ rd_pc = "call"
  /\ rd_result' = safe_read_text(rd_file)
  /\ rd_pc' = "done"
  /\ UNCHANGED rd_file

----------------------------------------------------------------------------
\* LLMService.extract_data: text handling.  A str is a sequence of tokens:
\* the characters that the code tests or cuts one by one (a backtick, the
\* letters of a fence tag, a brace, a blank, a newline) are one token each;
\* a run of other characters, and a JSON literal, is one token.

Whitespace == {" ", "\n"}

\* str.strip()
RECURSIVE LStrip(_)
LStrip(t) == IF t # << >> /\ t[1] \in Whitespace THEN LStrip(Tail(t)) ELSE t
RECURSIVE RStrip(_)
RStrip(t) ==
  IF t # << >> /\ t[Len(t)] \in Whitespace THEN RStrip(SubSeq(t, 1, Len(t) - 1))
  ELSE t
Strip(t) == RStrip(LStrip(t))

\* str.startswith(prefix), str.endswith(suffix), t[n:], t[:-n]
StartsWith(t, prefix) ==
  Len(t) >= Len(prefix) /\ SubSeq(t, 1, Len(prefix)) = prefix
EndsWith(t, suffix) ==
  Len(t) >= Len(suffix) /\ SubSeq(t, Len(t) - Len(suffix) + 1, Len(t)) = suffix
DropFirst(t, n) == SubSeq(t, n + 1, Len(t))
DropLast(t, n) == SubSeq(t, 1, Len(t) - n)

\* One backtick is the token "BACKTICK".
Fence == <<"BACKTICK", "BACKTICK", "BACKTICK">>
FenceJson == Fence \o <<"j", "s", "o", "n">>

\* The cleaning of the response: strip; drop a leading fence with the tag
\* json (7 characters); drop a leading fence (3); drop a trailing fence (3);
\* strip.
Sanitize(raw) ==
  LET s0 == Strip(raw)
      s1 == IF StartsWith(s0, FenceJson) THEN DropFirst(s0, Len(FenceJson)) ELSE s0
      s2 == IF StartsWith(s1, Fence) THEN DropFirst(s1, Len(Fence)) ELSE s1
      s3 == IF EndsWith(s2, Fence) THEN DropLast(s2, Len(Fence)) ELSE s2
  IN Strip(s3)

\* JSON values: [t |-> kind, v |-> payload].  An object's payload is a
\* function from its keys, an array's a sequence, a string's the sequence of
\* its words (so that Python's substring test `in` can be computed).
JNull == [t |-> "null", v |-> 0]
JNum(n) == [t |-> "num", v |-> n]
JBool(b) == [t |-> "bool", v |-> b]
JStr(words) == [t |-> "str", v |-> words]
JArr(items) == [t |-> "arr", v |-> items]
JObj(members) == [t |-> "obj", v |-> members]

\* The JSON literals of the model and the values json.loads gives them.
Literals ==
  ("\"vendor\"" :> JStr(<<"vendor">>)) @@
  ("\"total\""  :> JStr(<<"total">>)) @@
  ("\"Acme\""   :> JStr(<<"Acme">>)) @@
  ("\"9720\""   :> JStr(<<"9720">>)) @@
  ("\"total due\"" :> JStr(<<"total", " due">>)) @@
  ("9720"       :> JNum(9720)) @@
  ("true"       :> JBool(TRUE)) @@
  ("null"       :> JNull)

\* The key a string literal stands for when it is an object member's name.
KeyOf(tok) == Literals[tok].v[1]
IsStringLiteral(tok) == tok \in DOMAIN Literals /\ Literals[tok].t = "str"

ParseFail == [ok |-> FALSE, val |-> JNull, rest |-> << >>]
ParseOk(val, rest) == [ok |-> TRUE, val |-> val, rest |-> rest]

\* The JSON grammar over tokens; whitespace between tokens was removed.
\* ParseValue gives the value at the head of toks and the tokens after it.
RECURSIVE ParseValue(_)
RECURSIVE ParseItems(_, _)
RECURSIVE ParseMembers(_, _)
ParseValue(toks) ==
  IF toks = << >> THEN ParseFail
  ELSE IF toks[1] \in DOMAIN Literals THEN ParseOk(Literals[toks[1]], Tail(toks))
  ELSE IF toks[1] = "["
       THEN IF Len(toks) >= 2 /\ toks[2] = "]"
            THEN ParseOk(JArr(<< >>), DropFirst(toks, 2))
            ELSE ParseItems(Tail(toks), << >>)
  ELSE IF toks[1] = "{"
       THEN IF Len(toks) >= 2 /\ toks[2] = "}"
            THEN ParseOk(JObj(EmptyMap), DropFirst(toks, 2))
            ELSE ParseMembers(Tail(toks), EmptyMap)
  ELSE ParseFail

\* value ("," value)* "]"
ParseItems(toks, acc) ==
  LET r == ParseValue(toks) IN
  IF ~r.ok \/ r.rest = << >> THEN ParseFail
  ELSE IF r.rest[1] = "]" THEN ParseOk(JArr(Append(acc, r.val)), Tail(r.rest))
  ELSE IF r.rest[1] = "," THEN ParseItems(Tail(r.rest), Append(acc, r.val))
  ELSE ParseFail

\* string ":" value ("," string ":" value)* "}"; a repeated key keeps the
\* last value.
ParseMembers(toks, acc) ==
  IF Len(toks) < 2 \/ ~IsStringLiteral(toks[1]) \/ toks[2] # ":" THEN ParseFail
  ELSE LET r == ParseValue(DropFirst(toks, 2)) IN
       IF ~r.ok \/ r.rest = << >> THEN ParseFail
       ELSE IF r.rest[1] = "}"
            THEN ParseOk(JObj(Put(acc, KeyOf(toks[1]), r.val)), Tail(r.rest))
       ELSE IF r.rest[1] = ","
            THEN ParseMembers(Tail(r.rest), Put(acc, KeyOf(toks[1]), r.val))
       ELSE ParseFail

\* json.loads(text): the value, or JSONDecodeError when the text is not
\* exactly one JSON value.
json_loads(s) ==
  LET toks == SelectSeq(s, LAMBDA c : c \notin Whitespace)
      r == ParseValue(toks)
  IN IF r.ok /\ r.rest = << >> THEN Returns(r.val) ELSE Raises("JSONDecodeError")

\* str.format(document=...) on a template.  A template's braces are one
\* token each; what stands between them is a name token ("document",
\* "other", "0"), possibly followed by "." and an attribute name.

\* Position of the brace that closes the field opened at t[1], counting
\* nested braces as str.format does; 0 when the template ends first.
RECURSIVE ClosingBrace(_, _, _)
ClosingBrace(t, i, depth) ==
  IF i > Len(t) THEN 0
  ELSE IF t[i] = "{" THEN ClosingBrace(t, i + 1, depth + 1)
  ELSE IF t[i] = "}" THEN (IF depth = 1 THEN i ELSE ClosingBrace(t, i + 1, depth - 1))
  ELSE ClosingBrace(t, i + 1, depth)

\* The value of one replacement field: the keyword argument `document`; an
\* empty or numeric name indexes the (empty) positional arguments; any other
\* name is a missing keyword; an attribute a str does not have.
FormatField(field, doc) ==
  IF field = << >> \/ field[1] = "0" THEN Raises("IndexError")
  ELSE IF field[1] # "document" THEN Raises("KeyError")
  ELSE IF Len(field) >= 2 /\ field[2] = "." THEN Raises("AttributeError")
  ELSE Returns(doc)

\* First the value x, then what r gives, unless r raises.
Then(x, r) == IF r.kind = "raise" THEN r ELSE Returns(x \o r.value)

RECURSIVE Format(_, _)
Format(t, doc) ==
  IF t = << >> THEN Returns(<< >>)
  ELSE IF t[1] = "{"
       THEN IF Len(t) >= 2 /\ t[2] = "{"
            THEN Then(<<"{">>, Format(DropFirst(t, 2), doc))
            ELSE LET close == ClosingBrace(t, 2, 1) IN
                 IF close = 0 THEN Raises("ValueError")
                 ELSE LET f == FormatField(SubSeq(t, 2, close - 1), doc) IN
                      IF f.kind = "raise" THEN f
                      ELSE Then(f.value, Format(DropFirst(t, close), doc))
  ELSE IF t[1] = "}"
       THEN IF Len(t) >= 2 /\ t[2] = "}"
            THEN Then(<<"}">>, Format(DropFirst(t, 2), doc))
            ELSE Raises("ValueError")
  ELSE Then(<<t[1]>>, Format(Tail(t), doc))

Placeholder == <<"{", "document", "}">>

\* Mutant: a fallback that substitutes nothing.
ReplaceNothing(t, doc) == t

\* str.replace("{document}", document_text): every occurrence, left to right,
\* the inserted text not scanned again.
RECURSIVE Replace(_, _)
Replace(t, doc) ==
  IF t = << >> THEN << >>
  ELSE IF StartsWith(t, Placeholder)
       THEN doc \o Replace(DropFirst(t, Len(Placeholder)), doc)
  ELSE <<t[1]>> \o Replace(Tail(t), doc)

\* `except KeyError as e` around the format call.
FormatHandled == {"KeyError"}

\* try: user_prompt = template.format(document=document_text)
\* except KeyError: user_prompt = template.replace("{document}", document_text)
AssembleUserPrompt(template, doc) ==
  LET r == Format(template, doc) IN
  IF r.kind = "raise" /\ Catches(FormatHandled, r)
  THEN Returns(Replace(template, doc))
  ELSE r

\* A JSON schema as the caller's dict: the keys it has and their values.
\* `required` is a list of names, `properties` a list of name and declared
\* type in the dict's order.
Schema(has_required, required, has_properties, properties) ==
  [has_required |-> has_required, required |-> required,
   has_properties |-> has_properties, properties |-> properties,
   serializable |-> TRUE]

Quoted(name) == <<"\"", name, "\"">>

RECURSIVE DumpNames(_)
DumpNames(names) ==
  IF names = << >> THEN << >>
  ELSE Quoted(names[1]) \o (IF Len(names) > 1 THEN <<",">> ELSE << >>)
         \o DumpNames(Tail(names))

RECURSIVE DumpProperties(_)
DumpProperties(props) ==
  IF props = << >> THEN << >>
  ELSE Quoted(props[1][1]) \o <<":", "{">> \o Quoted("type") \o <<":">>
         \o Quoted(props[1][2]) \o <<"}">>
         \o (IF Len(props) > 1 THEN <<",">> ELSE << >>)
         \o DumpProperties(Tail(props))

\* json.dumps(json_schema, indent=2), without the layout whitespace.
Dumps(schema) ==
  <<"{">>
  \o (IF schema.has_required
      THEN Quoted("required") \o <<":", "[">> \o DumpNames(schema.required) \o <<"]">>
      ELSE << >>)
  \o (IF schema.has_required /\ schema.has_properties THEN <<",">> ELSE << >>)
  \o (IF schema.has_properties
      THEN Quoted("properties") \o <<":", "{">>
             \o DumpProperties(schema.properties) \o <<"}">>
      ELSE << >>)
  \o <<"}">>

SchemaInstruction ==
  <<"\n", "\n", "You must respond with valid JSON that conforms to this schema:", "\n">>

\* full_system_prompt = system_prompt + schema_instruction
FullSystemPrompt(system, schema) == system \o SchemaInstruction \o Dumps(schema)

\* LLMService._validate_against_schema(data, schema)

\* Python's `field in data`: key of a dict, element of a list, substring of
\* a str; TypeError for a number, a bool or None.
In(field, data) ==
  CASE data.t = "obj" -> Returns(field \in DOMAIN data.v)
    [] data.t = "arr" -> Returns(\E i \in 1..Len(data.v) :
                                    data.v[i].t = "str" /\ data.v[i].v = <<field>>)
    [] data.t = "str" -> Returns(\E i \in 1..Len(data.v) : data.v[i] = field)
    [] OTHER          -> Raises("TypeError")

\* Python's data[field] with a str index: the member of a dict; TypeError
\* for a list or a str.
Subscript(data, field) ==
  IF data.t = "obj" THEN Returns(data.v[field]) ELSE Raises("TypeError")

\* Mutant: a type test that also rejects what it has no rule for.
IsInstanceStrict(value, expected_type) ==
  CASE expected_type = "string" -> value.t = "str"
    [] expected_type = "number" -> value.t \in {"num", "bool"}
    [] expected_type = "array"  -> value.t = "arr"
    [] OTHER                    -> FALSE

\* The isinstance test for a declared type; bool is an int in Python.  Any
\* other declared type is not tested.
IsInstance(value, expected_type) ==
  CASE expected_type = "string" -> value.t = "str"
    [] expected_type = "number" -> value.t \in {"num", "bool"}
    [] expected_type = "array"  -> value.t = "arr"
    [] OTHER                    -> TRUE

\* raise ValidationError(f"..."): pydantic's ValidationError (line 23) has no
\* constructor taking a message, so the raise statement itself fails with
\* TypeError and no ValidationError comes into being.
RaiseValidationError == Raises("TypeError")

RECURSIVE CheckRequired(_, _)
CheckRequired(names, data) ==
  IF names = << >> THEN Returns(TRUE)
  ELSE LET r == In(names[1], data) IN
       IF r.kind = "raise" THEN r
       ELSE IF ~r.value THEN RaiseValidationError
       ELSE CheckRequired(Tail(names), data)

RECURSIVE CheckProperties(_, _)
CheckProperties(props, data) ==
  IF props = << >> THEN Returns(TRUE)
  ELSE LET r == In(props[1][1], data) IN
       IF r.kind = "raise" THEN r
       ELSE IF ~r.value THEN CheckProperties(Tail(props), data)
       ELSE LET x == Subscript(data, props[1][1]) IN
            IF x.kind = "raise" THEN x
            ELSE IF ~IsInstance(x.value, props[1][2]) THEN RaiseValidationError
            ELSE CheckProperties(Tail(props), data)

validate_against_schema(data, schema) ==
  LET r == IF schema.has_required THEN CheckRequired(schema.required, data)
           ELSE Returns(TRUE)
  IN IF r.kind = "raise" THEN r
     ELSE IF schema.has_properties THEN CheckProperties(schema.properties, data)
     ELSE Returns(TRUE)

----------------------------------------------------------------------------
\* LLMService.extract_data as a state machine.

\* str(e) of an exception of the given class.
MessageOf(cls) == <<"message of ", cls>>

\* The arguments of the calls.
Documents ==
  { <<"Invoice 42 from Acme">>,
    <<"Total ", "{", "document", "}">> }

SystemPrompt == <<"You extract invoice fields.">>

TemplateDocument == <<"Extract from: ", "{", "document", "}">>
TemplateOtherField == <<"{", "other", "}", " ", "{", "document", "}">>
TemplateJsonExample ==
  <<"Answer like ", "{", "\"vendor\"", ":", " ", "\"Acme\"", "}", " for ",
    "{", "document", "}">>
TemplateEscaped == <<"{", "{", "vendor", "}", "}", " ", "{", "document", "}">>
TemplatePlain == <<"Summarise the invoice.">>
TemplatePositional == <<"{", "}", " ", "{", "document", "}">>
TemplateLoneBrace == <<"{", "document">>
TemplateAttribute == <<"{", "document", ".", "pages", "}">>

Templates ==
  { TemplateDocument, TemplateOtherField, TemplateJsonExample, TemplateEscaped,
    TemplatePlain, TemplatePositional, TemplateLoneBrace, TemplateAttribute }

SchemaRequiredVendor == Schema(TRUE, <<"vendor">>, FALSE, << >>)
SchemaTotalNumber == Schema(TRUE, <<"total">>, TRUE, << <<"total", "number">> >>)
SchemaPropertiesOnly ==
  Schema(FALSE, << >>, TRUE, << <<"vendor", "string">>, <<"total", "number">> >>)
SchemaEmpty == Schema(FALSE, << >>, FALSE, << >>)
\* An array-typed property and a type name the validation does not test.
SchemaMixed ==
  Schema(TRUE, <<"vendor">>, TRUE, << <<"vendor", "array">>, <<"total", "integer">> >>)
\* A dict holding a value json.dumps cannot serialise (a set, a class).
SchemaOpaque == [SchemaEmpty EXCEPT !.serializable = FALSE]

Schemas ==
  { SchemaRequiredVendor, SchemaTotalNumber, SchemaPropertiesOnly, SchemaEmpty,
    SchemaMixed, SchemaOpaque }

\* json.dumps(json_schema, indent=2) inside the f-string of line 77.
JsonDumps(schema) ==
  IF schema.serializable THEN Returns(Dumps(schema)) ELSE Raises("TypeError")

\* The texts a model can answer with.
BodyVendor == <<"{", "\"vendor\"", ":", " ", "\"Acme\"", "}">>
BodyTotalNumber == <<"{", "\"total\"", ":", " ", "9720", "}">>
BodyTotalString == <<"{", "\"total\"", ":", " ", "\"9720\"", "}">>
BodyTotalBool == <<"{", "\"total\"", ":", " ", "true", "}">>
BodyBoth ==
  <<"{", "\"vendor\"", ":", " ", "\"Acme\"", ",", "\n", "\"total\"", ":", " ",
    "9720", "}">>
BodyEmptyObject == <<"{", "}">>
BodyArray == <<"[", "\"vendor\"", "]">>
BodyString == <<"\"total due\"">>
BodyNumber == <<"9720">>
BodyNull == <<"null">>
BodyTruncated == <<"{", "\"vendor\"", ":", " ", "\"Acme\"">>
BodyProse == <<"Here is the data you asked for.">>
BodyEmpty == << >>
BodyVendorArray ==
  <<"{", "\"vendor\"", ":", " ", "[", "\"Acme\"", "]", ",", " ", "\"total\"", ":",
    " ", "\"9720\"", "}">>

Bodies ==
  { BodyVendor, BodyTotalNumber, BodyTotalString, BodyTotalBool, BodyBoth,
    BodyEmptyObject, BodyArray, BodyString, BodyNumber, BodyNull,
    BodyTruncated, BodyProse, BodyEmpty, BodyVendorArray }

\* The language tags a model can put on its opening fence.
TagNone == << >>
TagJson == <<"j", "s", "o", "n">>
TagJSON == <<"J", "S", "O", "N">>
TagJavascript == <<"j", "a", "v", "a", "s", "c", "r", "i", "p", "t">>
Tags == {TagNone, TagJson, TagJSON, TagJavascript}

\* How a model wraps its text: in a fenced block or not, the tag of the
\* opening fence, and the whitespace before and after the whole answer.
Wrappings ==
  [fenced : BOOLEAN, tag : Tags, lead : {<< >>, <<"\n">>},
   trail : {<< >>, <<" ", "\n">>}]

Wrap(w, body) ==
  w.lead
  \o (IF w.fenced THEN Fence \o w.tag \o <<"\n">> \o body \o <<"\n">> \o Fence
      ELSE body)
  \o w.trail

NoWrap == [fenced |-> FALSE, tag |-> TagNone, lead |-> << >>, trail |-> << >>]

\* A backend call's result: the str it returned, None, or an exception.
NoResponse == [present |-> FALSE, text |-> << >>]
TextResponse(t) == [present |-> TRUE, text |-> t]

Reply(kind, cls, body, w) == [kind |-> kind, cls |-> cls, body |-> body, wrap |-> w]

\* _call_openai: message.content is a str or None; an empty choices list is
\* an IndexError; the client's errors are logged and raised again.
\* _call_anthropic: content[0].text is a str; an empty content list is an
\* IndexError, a first block without text an AttributeError; the client's
\* errors propagate.
Replies(prov) ==
  {Reply("text", "none", b, w) :
     b \in Bodies, w \in {x \in Wrappings : x.fenced \/ x.tag = TagNone}}
  \cup {Reply("raise", "APIError", << >>, NoWrap),
        Reply("raise", "IndexError", << >>, NoWrap)}
  \cup (IF prov = "openai" THEN {Reply("none", "none", << >>, NoWrap)}
        ELSE {Reply("raise", "AttributeError", << >>, NoWrap)})

Providers == {"openai", "anthropic"}

NoSent == [system |-> << >>, user |-> << >>]

\* No LLMService in this configuration.
LlmIdle ==
  /\ provider = "none"
  /\ l_pc = "off"
  /\ document_text = << >>
  /\ system_prompt = << >>
  /\ user_prompt_template = << >>
  /\ json_schema = SchemaEmpty
  /\ now = 0
  /\ start_time = 0
  /\ user_prompt = << >>
  /\ full_system_prompt = << >>
  /\ response = NoResponse
  /\ cleaned_response = << >>
  /\ extracted_data = JNull
  /\ l_exc = NoExc
  /\ l_result = NoResult
  /\ invoked = << >>
  /\ sent = NoSent
  /\ l_raised = NoExc
  /\ l_body = << >>
  /\ l_wrap = NoWrap
  /\ l_scope = "all"

\* LLMService.__init__ succeeded: the provider is one of the two it accepts.
LlmInitIn(scope) ==
  /\ l_scope = scope
  /\ provider \in Providers
  /\ l_pc = "idle"
  /\ document_text = << >>
  /\ system_prompt = << >>
  /\ user_prompt_template = << >>
  /\ json_schema = SchemaEmpty
  /\ now = 0
  /\ start_time = 0
  /\ user_prompt = << >>
  /\ full_system_prompt = << >>
  /\ response = NoResponse
  /\ cleaned_response = << >>
  /\ extracted_data = JNull
  /\ l_exc = NoExc
  /\ l_result = NoResult
  /\ invoked = << >>
  /\ sent = NoSent
  /\ l_raised = NoExc
  /\ l_body = << >>
  /\ l_wrap = NoWrap

LlmInit == LlmInitIn("all")

\* The inputs of the configuration with few inputs: one document, templates
\* of each kind of substitution, a schema that validates and one that cannot
\* be serialised, and answers that are valid, invalid and unparseable, bare
\* and in a json fence.
FewTemplates == {TemplateDocument, TemplateOtherField, TemplatePositional}
FewSchemas == {SchemaTotalNumber, SchemaOpaque}
FewBodies == {BodyTotalNumber, BodyTotalString, BodyTruncated}
FewWrappings ==
  {NoWrap, [fenced |-> TRUE, tag |-> TagJson, lead |-> << >>, trail |-> << >>]}

DocumentsIn(scope) ==
  IF scope = "few" THEN {<<"Invoice 42 from Acme">>} ELSE Documents
TemplatesIn(scope) == IF scope = "few" THEN FewTemplates ELSE Templates
SchemasIn(scope) == IF scope = "few" THEN FewSchemas ELSE Schemas
RepliesIn(prov, scope) ==
  IF scope = "few"
  THEN {r \in Replies(prov) :
          r.kind # "text" \/ (r.body \in FewBodies /\ r.wrap \in FewWrappings)}
  ELSE Replies(prov)

\* Mutant: an outer handler that names only the errors of parsing and lookup.
OuterHandledNarrow == {"ValueError", "LookupError"}

\* Mutant: an inner handler that leaves out the parse error.
InnerHandledNarrow == {"ValidationError"}

\* The exception classes the two except clauses of extract_data name.
InnerHandled == {"JSONDecodeError", "ValidationError"}
OuterHandled == {"Exception"}

argsLlm == << l_scope, provider, document_text, system_prompt, user_prompt_template,
              json_schema, start_time >>

\* Mutant: an error inside the inner try sends the call back to the backend
\* once more.
LRaiseRetry(cls, handler) ==
  /\ l_exc' = Exc(cls, MessageOf(cls))
  /\ l_raised' = Exc(cls, MessageOf(cls))
  /\ l_pc' = IF handler = "inner" /\ Len(invoked) < 2 THEN "invoke" ELSE handler

\* An exception is raised at this point of the body; unwinding starts at the
\* innermost enclosing try ("inner" or "outer").
LRaise(cls, handler) ==
  /\ l_exc' = Exc(cls, MessageOf(cls))
  /\ l_raised' = Exc(cls, MessageOf(cls))
  /\ l_pc' = handler

\* (datetime.utcnow() - start_time).total_seconds()
Elapsed == now - start_time

\* extract_data is called; start_time = datetime.utcnow().
LStart ==
  /\ l_pc = "idle"
  /\ document_text' \in DocumentsIn(l_scope)
  /\ system_prompt' = SystemPrompt
  /\ user_prompt_template' \in TemplatesIn(l_scope)
  /\ json_schema' \in SchemasIn(l_scope)
  /\ start_time' = now
  /\ l_pc' = "assemble"
  /\ UNCHANGED << l_scope, provider, now, user_prompt, full_system_prompt, response,
                  cleaned_response, extracted_data, l_exc, l_result, invoked,
                  sent, l_raised, l_body, l_wrap >>

\* Lines 68-78: the user text and the system text.
LAssemble ==
  /\ l_pc = "assemble"
  /\ LET u == AssembleUserPrompt(user_prompt_template, document_text)
         d == JsonDumps(json_schema)
     IN IF u.kind = "raise"
        THEN LRaise(u.cls, "outer") /\ UNCHANGED << user_prompt, full_system_prompt >>
        ELSE IF d.kind = "raise"
        THEN /\ LRaise(d.cls, "outer")
             /\ user_prompt' = u.value
             /\ UNCHANGED full_system_prompt
        ELSE /\ user_prompt' = u.value
             /\ full_system_prompt' = FullSystemPrompt(system_prompt, json_schema)
             /\ l_pc' = "invoke"
             /\ UNCHANGED << l_exc, l_raised >>
  /\ UNCHANGED << argsLlm, now, response, cleaned_response, extracted_data,
                  l_result, invoked, sent, l_body, l_wrap >>

\* Lines 80-85 with _call_openai and _call_anthropic: one blocking round
\* trip.  Time passes while the backend answers; the clock is taken not to
\* be set back during a call.
LInvoke ==
  /\ l_pc = "invoke"
  /\ \E d \in 0..MaxLatency : now' = now + d
  /\ IF provider \in Providers
     THEN /\ invoked' = Append(invoked, provider)
          /\ sent' = [system |-> full_system_prompt, user |-> user_prompt]
          /\ \E r \in RepliesIn(provider, l_scope) :
               /\ l_body' = r.body
               /\ l_wrap' = r.wrap
               /\ CASE r.kind = "text" ->
                         /\ response' = TextResponse(Wrap(r.wrap, r.body))
                         /\ l_pc' = "sanitize"
                         /\ UNCHANGED << l_exc, l_raised >>
                    [] r.kind = "none" ->
                         /\ response' = NoResponse
                         /\ l_pc' = "sanitize"
                         /\ UNCHANGED << l_exc, l_raised >>
                    [] OTHER ->
                         /\ LRaise(r.cls, "outer")
                         /\ UNCHANGED response
     ELSE /\ LRaise("ValueError", "outer")
          /\ UNCHANGED << invoked, sent, l_body, l_wrap, response >>
  /\ UNCHANGED << argsLlm, user_prompt, full_system_prompt, cleaned_response,
                  extracted_data, l_result >>

\* Lines 90-97, inside the inner try.  None has no strip().
LSanitize ==
  /\ l_pc = "sanitize"
  /\ IF response.present
     THEN /\ cleaned_response' = Sanitize(response.text)
          /\ l_pc' = "parse"
          /\ UNCHANGED << l_exc, l_raised >>
     ELSE /\ LRaise("AttributeError", "inner")
          /\ UNCHANGED cleaned_response
  /\ UNCHANGED << argsLlm, now, user_prompt, full_system_prompt, response,
                  extracted_data, l_result, invoked, sent, l_body, l_wrap >>

\* Lines 102-103, inside the inner try.
LParse ==
  /\ l_pc = "parse"
  /\ LET r == json_loads(cleaned_response) IN
     IF r.kind = "raise"
     THEN LRaise(r.cls, "inner") /\ UNCHANGED extracted_data
     ELSE /\ extracted_data' = r.value
          /\ LET v == validate_against_schema(r.value, json_schema) IN
             IF v.kind = "raise"
             THEN LRaise(v.cls, "inner")
             ELSE l_pc' = "return" /\ UNCHANGED << l_exc, l_raised >>
  /\ UNCHANGED << argsLlm, now, user_prompt, full_system_prompt, response,
                  cleaned_response, l_result, invoked, sent, l_body, l_wrap >>

\* Lines 104-112: the inner except clause; what it does not catch goes on to
\* the outer one.
LInnerExcept ==
  /\ l_pc = "inner"
  /\ IF Catches(InnerHandled, l_exc)
     THEN /\ l_result' = [success |-> FALSE,
                          error |-> <<"Invalid JSON response: ">> \o l_exc.msg,
                          raw_response |-> response.text,
                          processing_time_seconds |-> Elapsed]
          /\ l_exc' = NoExc
          /\ l_pc' = "done"
     ELSE /\ l_pc' = "outer"
          /\ UNCHANGED << l_result, l_exc >>
  /\ UNCHANGED << argsLlm, now, user_prompt, full_system_prompt, response,
                  cleaned_response, extracted_data, invoked, sent, l_raised,
                  l_body, l_wrap >>

\* Lines 114-119.
LReturn ==
  /\ l_pc = "return"
  /\ l_result' = [success |-> TRUE,
                  extracted_data |-> extracted_data,
                  raw_response |-> response.text,
                  processing_time_seconds |-> Elapsed]
  /\ l_pc' = "done"
  /\ UNCHANGED << argsLlm, now, user_prompt, full_system_prompt, response,
                  cleaned_response, extracted_data, l_exc, invoked, sent,
                  l_raised, l_body, l_wrap >>

\* Lines 121-130: the outer except clause; what it does not catch leaves
\* extract_data.
LOuterExcept ==
  /\ l_pc = "outer"
  /\ l_result' = IF Catches(OuterHandled, l_exc)
                 THEN [success |-> FALSE,
                       error |-> l_exc.msg,
                       processing_time_seconds |-> Elapsed]
                 ELSE Raised(l_exc)
  /\ l_exc' = NoExc
  /\ l_pc' = "done"
  /\ UNCHANGED << argsLlm, now, user_prompt, full_system_prompt, response,
                  cleaned_response, extracted_data, invoked, sent, l_raised,
                  l_body, l_wrap >>

----------------------------------------------------------------------------
\* The API process: POST /artifacts/{artifact_id}/convert (convert_artifact)
\* over the tables artifacts and conversions.  The handler is a coroutine
\* without an await, served by the one event loop of uvicorn.run, so a request
\* is handled from its first line to its response before the next one starts.

\* Bound: the convert requests of one behaviour.
MaxRequests == 3

\* The artifact ids in the table, and the ids and formats requests carry.
ArtifactIds == {"a1", "a2"}
RequestIds  == ArtifactIds \cup {"a9"}
ApiFormats  == {"pdf", "docx", "PDF"}

\* The files artifacts point to: one on disk, one no longer there.
ArtifactPaths == {ReportDocx, GhostDocx}

\* Optional[str] and the "" given for a missing output_path.
None == [present |-> FALSE, value |-> << >>]
Some(v) == [present |-> TRUE, value |-> v]
EmptyPath == [dir |-> "", name |-> << >>]

\* dict.get(key, default).
Get(d, key, default) == IF key \in DOMAIN d THEN d[key] ELSE default

NoRequest == [artifact_id |-> "", format |-> ""]
HttpOk(body) == [status |-> 200, body |-> Some(body)]
HTTPException(status_code, detail) ==
  [status |-> status_code, body |-> None, detail |-> detail]
NoApiResponse == [status |-> 0, body |-> None]

\* The database before the first request: some artifacts, no conversion.
ApiIdle ==
  /\ artifacts = << >>
  /\ conversions = << >>
  /\ requests = 0
  /\ api_request = NoRequest
  /\ api_result = NoResult
  /\ api_response = NoApiResponse
  /\ invocations = << >>

ApiInit ==
  /\ artifacts \in [ArtifactIds -> ArtifactPaths]
  /\ conversions = << >>
  /\ requests = 0
  /\ api_request = NoRequest
  /\ api_result = NoResult
  /\ api_response = NoApiResponse
  /\ invocations = [pair \in RequestIds \X ApiFormats |-> 0]

\* What convert_document(input_path, output_format) can return: the outcomes
\* of its paths (the checks, the converter run, the relocation).
ConvertResults(path, fmt) ==
  IF ~Exists(path)
  THEN {FailureDict(Exc("FileNotFoundError",
                        <<"Input file not found: ", "input_path">>), fmt)}
  ELSE IF fmt \notin SupportedFormats
  THEN {FailureDict(Exc("ValueError",
                        <<"Unsupported output format: ", "output_format">>), fmt)}
  ELSE {SuccessDict(OutputPath(path, fmt, Extension(fmt)), 1, fmt)}
       \cup {FailureDict(e, fmt) :
               e \in {RunException("timeout"), RunException("launch_error"),
                      Exc("RuntimeError", <<"LibreOffice conversion failed: ", "stderr">>),
                      Exc("RuntimeError", <<"No converted file found">>),
                      Exc("OSError", <<"[Errno 28] No space left on device">>),
                      Exc("OSError", <<"[Errno 5] Input/output error: ", "output_path">>)}}

\* Mutant: the filter of the extract endpoint, which skips failed rows.
ExistingSuccessful(table, artifact_id, fmt) ==
  LET found == {i \in 1..Len(table) :
                  /\ table[i].artifact_id = artifact_id
                  /\ table[i].format = fmt
                  /\ table[i].success}
  IN IF found = {} THEN 0 ELSE CHOOSE i \in found : \A j \in found : i <= j

\* db.query(Conversion).filter(Conversion.artifact_id == artifact_id,
\*                             Conversion.format == request.format).first():
\* the index of the first matching row, 0 for None.
Existing(table, artifact_id, fmt) ==
  LET found == {i \in 1..Len(table) :
                  /\ table[i].artifact_id = artifact_id
                  /\ table[i].format = fmt}
  IN IF found = {} THEN 0 ELSE CHOOSE i \in found : \A j \in found : i <= j

\* Conversion(artifact_id=..., format=..., file_path=result.get("output_path", ""),
\*            file_size=result.get("file_size", 0), success=result["success"],
\*            error_message=result.get("error")) with the defaults of the
\* columns id and conversion_date.
Conversion(id, date, artifact_id, fmt, r) ==
  [id |-> id,
   artifact_id |-> artifact_id,
   format |-> fmt,
   file_path |-> Get(r, "output_path", EmptyPath),
   file_size |-> Get(r, "file_size", 0),
   conversion_date |-> date,
   success |-> r.success,
   error_message |-> IF "error" \in DOMAIN r THEN Some(r.error) ELSE None]

\* ConversionResponse.from_orm: the fields of the response model; file_path
\* is not among them.
ConversionResponse(row) ==
  [id |-> row.id,
   artifact_id |-> row.artifact_id,
   format |-> row.format,
   file_size |-> row.file_size,
   conversion_date |-> row.conversion_date,
   success |-> row.success,
   error_message |-> row.error_message]

\* One request to convert_artifact, from the artifact lookup to the response.
ConvertArtifact ==
  /\ requests < MaxRequests
  /\ requests' = requests + 1
  /\ UNCHANGED artifacts
  /\ \E artifact_id \in RequestIds, fmt \in ApiFormats :
       /\ api_request' = [artifact_id |-> artifact_id, format |-> fmt]
       /\ IF artifact_id \notin DOMAIN artifacts
          THEN /\ api_response' = HTTPException(404, "Artifact not found")
               /\ api_result' = NoResult
               /\ UNCHANGED << conversions, invocations >>
          ELSE LET existing == Existing(conversions, artifact_id, fmt) IN
               IF existing # 0
               THEN /\ api_response' = HttpOk(ConversionResponse(conversions[existing]))
                    /\ api_result' = NoResult
                    /\ UNCHANGED << conversions, invocations >>
               ELSE \E r \in ConvertResults(artifacts[artifact_id], fmt) :
                      LET conversion == Conversion(Len(conversions) + 1, requests + 1,
                                                   artifact_id, fmt, r)
                      IN /\ api_result' = r
                         /\ invocations' =
                              [invocations EXCEPT ![<<artifact_id, fmt>>] = @ + 1]
                         /\ conversions' = Append(conversions, conversion)
                         /\ api_response' = HttpOk(ConversionResponse(conversion))

----------------------------------------------------------------------------
\* The specifications.

\* ConversionService under concurrent callers.
InitConv == ConvInit /\ ReadIdle /\ LlmIdle /\ ApiIdle
NextConv ==
  \E p \in Procs :
    \/ StartConvert(p) /\ UNCHANGED << readVars, llmVars, apiVars >>
    \/ CdExists(p) /\ UNCHANGED << readVars, llmVars, apiVars >>
    \/ CdEnter(p) /\ UNCHANGED << readVars, llmVars, apiVars >>
    \/ CdRun(p) /\ UNCHANGED << readVars, llmVars, apiVars >>
    \/ CdFind(p) /\ UNCHANGED << readVars, llmVars, apiVars >>
    \/ CdMove(p) /\ UNCHANGED << readVars, llmVars, apiVars >>
    \/ CdCopy(p) /\ UNCHANGED << readVars, llmVars, apiVars >>
    \/ CdStat(p) /\ UNCHANGED << readVars, llmVars, apiVars >>
    \/ CdExit(p) /\ UNCHANGED << readVars, llmVars, apiVars >>
    \/ CdExcept(p) /\ UNCHANGED << readVars, llmVars, apiVars >>
    \/ StartExtract(p) /\ UNCHANGED << readVars, llmVars, apiVars >>
    \/ EtSniff(p) /\ UNCHANGED << readVars, llmVars, apiVars >>
    \/ EtNative(p) /\ UNCHANGED << readVars, llmVars, apiVars >>
    \/ EtText(p) /\ UNCHANGED << readVars, llmVars, apiVars >>
    \/ EtConvert(p) /\ UNCHANGED << readVars, llmVars, apiVars >>
    \/ PpAfter(p) /\ UNCHANGED << readVars, llmVars, apiVars >>
    \/ EtAfter(p) /\ UNCHANGED << readVars, llmVars, apiVars >>
    \/ EtExcept(p) /\ UNCHANGED << readVars, llmVars, apiVars >>
    \/ Return(p) /\ UNCHANGED << readVars, llmVars, apiVars >>
SpecConv == InitConv /\ [][NextConv]_vars

\* ConversionService with two callers at once.
InitConc == ConvInitIn(Procs, BOOLEAN) /\ ReadIdle /\ LlmIdle /\ ApiIdle
SpecConc == InitConc /\ [][NextConv]_vars

\* _safe_read_text on every file.
InitRead == ConvQuiet /\ ReadInit /\ LlmIdle /\ ApiIdle
NextRead == SafeRead /\ UNCHANGED << convVars, llmVars, apiVars >>
SpecRead == InitRead /\ [][NextRead]_vars

\* One LLMService and one call of extract_data.
InitLLM == ConvQuiet /\ ReadIdle /\ LlmInit /\ ApiIdle
NextLLM ==
  \/ LStart /\ UNCHANGED << convVars, readVars, apiVars >>
  \/ LAssemble /\ UNCHANGED << convVars, readVars, apiVars >>
  \/ LInvoke /\ UNCHANGED << convVars, readVars, apiVars >>
  \/ LSanitize /\ UNCHANGED << convVars, readVars, apiVars >>
  \/ LParse /\ UNCHANGED << convVars, readVars, apiVars >>
  \/ LInnerExcept /\ UNCHANGED << convVars, readVars, apiVars >>
  \/ LReturn /\ UNCHANGED << convVars, readVars, apiVars >>
  \/ LOuterExcept /\ UNCHANGED << convVars, readVars, apiVars >>
SpecLLM == InitLLM /\ [][NextLLM]_vars

\* One call over few inputs, with progress: extract_data is straight-line
\* synchronous code with no loop, and the blocking backend call returns or
\* raises (the provider clients time out), so a call that can take a step
\* takes it.
InitLLMFew == ConvQuiet /\ ReadIdle /\ LlmInitIn("few") /\ ApiIdle
SpecLLMFair == InitLLMFew /\ [][NextLLM]_vars /\ WF_vars(NextLLM)

\* The convert endpoint over its database.
InitApi == ConvQuiet /\ ReadIdle /\ LlmIdle /\ ApiInit
NextApi == ConvertArtifact /\ UNCHANGED << convVars, readVars, llmVars >>
SpecApi == InitApi /\ [][NextApi]_vars

----------------------------------------------------------------------------
\* The claims about convert_document.

\* The error taxonomy, read off the cause string of a failure outcome.
Classify(error) ==
  CASE error[1] = "Input file not found: "         -> "NotFound"
    [] error[1] = "Unsupported output format: "    -> "UnsupportedFormat"
    [] error[1] = "LibreOffice conversion failed: " -> "ConversionFailed"
    [] error[1] = "No converted file found"        -> "ConversionFailed"
    [] error[1] = "Command "                       -> "ConversionFailed"
    [] OTHER                                       -> "Fault"

\* convert_document has handed a value (or an exception) to its caller.
Converted(p) == result[p] # NoResult

IsFailure(r) == ~IsRaised(r) /\ ~r.success
IsSuccess(r) == ~IsRaised(r) /\ r.success

\* C1: convert_document never raises and its outcome is never partially
\* populated: success carries output_path and file_size and no error; failure
\* carries a non-empty error and neither output_path nor file_size.
C1_OutcomeWellFormed ==
  \A p \in Procs :
    Converted(p) =>
      /\ ~IsRaised(result[p])
      /\ result[p].success =>
           DOMAIN result[p] = {"success", "output_path", "file_size", "format"}
      /\ ~result[p].success =>
           /\ DOMAIN result[p] = {"success", "error", "format"}
           /\ Len(result[p].error) > 0

\* A conversion whose stat of the moved file failed has returned a failure.
C1_Witness ==
  \E p \in Procs :
    /\ pc[p] = "done" /\ entry[p] = "convert_document"
    /\ IsFailure(result[p])
    /\ result[p].error[1] = "[Errno 5] Input/output error: "

\* C2: on a path that does not exist, for every supported format, the call
\* returns a NotFound failure, spawns no converter and writes nothing durable.
C2_MissingInputNotFound ==
  \A p \in Procs :
    (Converted(p) /\ input_path[p] \notin DOMAIN Uploads
       /\ output_format[p] \in {"pdf", "txt", "csv", "html"}) =>
      /\ IsFailure(result[p])
      /\ Classify(result[p].error) = "NotFound"
      /\ runs[p] = 0
      /\ wrote[p] = {}

C2_Witness ==
  \E p \in Procs :
    /\ pc[p] = "done" /\ input_path[p] = GhostDocx /\ output_format[p] = "csv"
    /\ IsFailure(result[p]) /\ Classify(result[p].error) = "NotFound"
    /\ runs[p] = 0

\* C3: for a format outside {pdf, txt, csv, html} the converter is never
\* spawned in the call, and on an existing input the call returns an
\* UnsupportedFormat failure.
C3_UnsupportedFormatNoConverter ==
  \A p \in Procs :
    (entry[p] = "convert_document"
       /\ output_format[p] \notin {"pdf", "txt", "csv", "html"}) =>
      /\ runs[p] = 0
      /\ (Converted(p) /\ input_path[p] \in DOMAIN Uploads) =>
           /\ IsFailure(result[p])
           /\ Classify(result[p].error) = "UnsupportedFormat"

C3_Witness ==
  \E p \in Procs :
    /\ pc[p] = "done" /\ input_path[p] = ReportDocx /\ output_format[p] = "PDF"
    /\ IsFailure(result[p]) /\ Classify(result[p].error) = "UnsupportedFormat"
    /\ made[p] # {}

\* C4: a converter that exits non-zero, times out, or exits 0 leaving no file
\* gives a ConversionFailed failure outcome, and the converter was spawned
\* exactly once in the call; no call ever spawns it twice.
C4_ConverterFailureOnce ==
  \A p \in Procs :
    /\ runs[p] <= 1
    /\ (Converted(p)
          /\ convOutcome[p] \in {"exit_nonzero", "exit_nonzero_file", "timeout",
                                 "timeout_partial", "exit0_nofile"}) =>
         /\ IsFailure(result[p])
         /\ Classify(result[p].error) = "ConversionFailed"
         /\ runs[p] = 1

\* The converter exited non-zero although it left a file.
C4_Witness ==
  \E p \in Procs :
    /\ pc[p] = "done" /\ convOutcome[p] = "exit_nonzero_file"
    /\ IsFailure(result[p]) /\ runs[p] = 1

\* C5: every scratch directory a call created is gone once convert_document
\* has returned, whatever the exit path, and none is left when no call runs.
C5_ScratchReleased ==
  /\ \A p \in Procs : Converted(p) => made[p] \cap DOMAIN scratch = {}
  /\ (\A p \in Procs : pc[p] = "idle") => DOMAIN scratch = {}

\* A converter killed at the timeout had left a partial file behind.
C5_Witness ==
  \E p \in Procs :
    /\ pc[p] = "done" /\ convOutcome[p] = "timeout_partial" /\ made[p] # {}
    /\ temp_dir[p] \notin DOMAIN scratch

\* The successful conversions known so far: those logged and those just
\* returned to the API.
Successes ==
  log \cup {[input_path |-> input_path[p], output_format |-> output_format[p],
             output_path |-> result[p].output_path] :
            p \in {q \in Procs : pc[q] = "done" /\ entry[q] = "convert_document"
                                   /\ IsSuccess(result[q])}}

\* C6: successful conversions of inputs with the same stem to the same format
\* report the same output_path, the path is conversions/<stem>_<format><ext>,
\* and when a call returns success the file at its output_path is the one it
\* produced (a later conversion replaces an earlier one).
C6_DeterministicNameOverwrite ==
  /\ \A e1, e2 \in Successes :
       (Stem(e1.input_path) = Stem(e2.input_path)
          /\ e1.output_format = e2.output_format)
         => e1.output_path = e2.output_path
  /\ \A e \in Successes :
       /\ e.output_path.dir = "conversions"
       /\ e.output_path.name =
            <<Stem(e.input_path), "_", e.output_format, <<".", e.output_format>> >>
       /\ e.output_path \in DOMAIN durable
  /\ \A p \in Procs :
       (pc[p] = "done" /\ entry[p] = "convert_document" /\ IsSuccess(result[p])
          /\ active = {"t1"}) =>
         durable[result[p].output_path].call = callId[p]

\* report.pptx converted after report.docx to the same format: the second
\* call succeeded and its file replaced the first one's.
C6_Witness ==
  \E p \in Procs :
    /\ pc[p] = "done" /\ entry[p] = "convert_document" /\ IsSuccess(result[p])
    /\ input_path[p] = ReportPptx
    /\ \E e \in log : /\ e.input_path = ReportDocx
                      /\ e.output_path = result[p].output_path
    /\ durable[result[p].output_path].call = 2

\* C7: extract_text returns a string and never raises; after an internal
\* failure it returns "", except on the presentation path, which returns a
\* non-empty error string.
C7_ExtractTextNeverRaises ==
  \A p \in Procs :
    (pc[p] = "done" /\ entry[p] = "extract_text") =>
      /\ text[p].kind = "return"
      /\ faulted[p] =>
           IF file_type[p] \in {MimePptx, MimePpt}
           THEN /\ text[p].value # << >>
                /\ text[p].value[1] = "Error extracting PowerPoint text: "
           ELSE text[p].value = << >>

\* A presentation whose conversion failed came back as an error-shaped text.
C7_Witness ==
  \E p \in Procs :
    /\ pc[p] = "done" /\ entry[p] = "extract_text" /\ file_type[p] = MimePptx
    /\ faulted[p] /\ IsFailure(result[p])
    /\ text[p].value[1] = "Error extracting PowerPoint text: "

\* The strategies of extract_text and the one the claim gives each MIME
\* type.
ExtractStrategies ==
  {"et_pdf", "et_docx", "et_excel", "pp_call", "et_text", "et_fallback"}

StrategyFor(ft) ==
  CASE ft = <<"application", "pdf">> -> "et_pdf"
    [] ft \in {<<"application", "msword">>,
               <<"application",
                 "vnd.openxmlformats-officedocument.wordprocessingml.document">>}
         -> "et_docx"
    [] ft \in {<<"application", "vnd.ms-excel">>,
               <<"application",
                 "vnd.openxmlformats-officedocument.spreadsheetml.sheet">>}
         -> "et_excel"
    [] ft \in {<<"application", "vnd.ms-powerpoint">>,
               <<"application",
                 "vnd.openxmlformats-officedocument.presentationml.presentation">>}
         -> "pp_call"
    [] ft[1] = "text" -> "et_text"
    [] OTHER -> "et_fallback"

\* One step of caller p keeps to the dispatch: the strategy entered after the
\* sniff is the one of the sniffed type, no second strategy follows it, and
\* during extract_text the converter has run at most once, and only for a
\* presentation or a type without a strategy of its own.
DispatchStepOk(p) ==
  /\ (pc[p] = "et_sniff" /\ pc'[p] \in ExtractStrategies) =>
       /\ file_type'[p] = Uploads[input_path[p]].mime
       /\ pc'[p] = StrategyFor(file_type'[p])
  /\ (pc'[p] \in ExtractStrategies /\ pc'[p] # pc[p]) => pc[p] = "et_sniff"
  /\ entry'[p] = "extract_text" =>
       /\ runs'[p] <= 1
       /\ runs'[p] = 1 =>
            StrategyFor(file_type'[p]) \in {"pp_call", "et_fallback"}

\* C18: extract_text dispatches on the sniffed MIME type to exactly one
\* strategy (pdf, doc/docx, xls/xlsx natively; ppt/pptx and every other type
\* through the converter; text/* by a direct read); the converter runs only
\* in the presentation and anything-else cases, at most once per call, and
\* never for pdf, word-processor, spreadsheet or text inputs, also when the
\* native strategy fails.
C18_DispatchByMime ==
  [][\A p \in Procs : DispatchStepOk(p)]_vars

\* A legacy spreadsheet whose native parser failed: "" came back and the
\* converter never ran.
C18_Witness ==
  \E p \in Procs :
    /\ pc[p] = "done" /\ entry[p] = "extract_text" /\ file_type[p] = MimeXls
    /\ faulted[p] /\ text[p] = Returns(<< >>)
    /\ runs[p] = 0

----------------------------------------------------------------------------
\* The claim about _safe_read_text.

\* C8: _safe_read_text always returns a string and never raises, for any
\* file path, the path of a file that cannot be opened included.
C8_SafeReadNeverRaises ==
  rd_pc = "done" => rd_result.kind = "return"

----------------------------------------------------------------------------
\* The claims about extract_data.

\* extract_data has handed a value (or an exception) to its caller.
Extracted == l_pc = "done"

\* What the caller compares of an outcome: the success flag and, on success,
\* the value extracted.
OutcomeCore(success, data) == [success |-> success, data |-> data]
CoreOf(r) ==
  IF r.success THEN OutcomeCore(TRUE, r.extracted_data) ELSE OutcomeCore(FALSE, JNull)

\* Lines 88-119 on a response text: the core of the outcome it leads to.
CoreFor(response_text, schema) ==
  LET r == json_loads(Sanitize(response_text)) IN
  IF r.kind = "raise" THEN OutcomeCore(FALSE, JNull)
  ELSE IF validate_against_schema(r.value, schema).kind = "raise"
       THEN OutcomeCore(FALSE, JNull)
  ELSE OutcomeCore(TRUE, r.value)

SameCore(a, b) ==
  /\ a.success = b.success
  /\ a.data.t = b.data.t
  /\ a.data.v = b.data.v

\* C9: extract_data never raises; a call gives exactly one tagged outcome;
\* an exception raised anywhere in the flow ends in a failure outcome that
\* carries the exception's message; every outcome carries
\* processing_time_seconds, which is not negative.
C9_ExtractDataNeverRaises ==
  /\ (l_result # NoResult) <=> Extracted
  /\ Extracted =>
       /\ ~IsRaised(l_result)
       /\ l_result.success \in BOOLEAN
       /\ "processing_time_seconds" \in DOMAIN l_result
       /\ l_result.processing_time_seconds >= 0
       /\ l_result.processing_time_seconds = now - start_time
       /\ (l_raised # NoExc) =>
            /\ ~l_result.success
            /\ EndsWith(l_result.error, l_raised.msg)
       /\ (l_raised = NoExc) => l_result.success

\* The backend returned None after a second or more; the call ended in a
\* failure that carries the AttributeError's message and the time.
C9_Witness ==
  /\ Extracted
  /\ ~response.present /\ invoked # << >>
  /\ l_raised.cls = "AttributeError"
  /\ ~IsRaised(l_result) /\ ~l_result.success
  /\ l_result.error = MessageOf("AttributeError")
  /\ l_result.processing_time_seconds >= 1

\* C10: for every valid JSON text J and every wrapping of J in code fences,
\* with no tag or with any tag, with or without surrounding whitespace, the
\* outcome's success flag and extracted_data are those obtained when the
\* model returns J unwrapped.
C10_FenceRoundTrip ==
  (Extracted /\ l_wrap.fenced /\ json_loads(l_body).kind = "return") =>
    /\ ~IsRaised(l_result)
    /\ SameCore(CoreOf(l_result), CoreFor(l_body, json_schema))

\* The error taxonomy of extract_data, read off the error string.
LlmClassify(error) ==
  IF error # << >> /\ error[1] = "Invalid JSON response: " THEN "InvalidResponse"
  ELSE "Fault"

\* The backend returned a str in this call.
Answered == invoked # << >> /\ response.present

\* C11: whenever the sanitized response is not parseable as JSON, the call
\* returns a failure classified InvalidResponse whose raw_response is the
\* model's text exactly as returned, with the elapsed time and without
\* extracted_data; it is never an exception.
C11_ParseFailureInvalidResponse ==
  (Extracted /\ Answered /\ json_loads(Sanitize(response.text)).kind = "raise") =>
    /\ ~IsRaised(l_result)
    /\ ~l_result.success
    /\ DOMAIN l_result =
         {"success", "error", "raw_response", "processing_time_seconds"}
    /\ LlmClassify(l_result.error) = "InvalidResponse"
    /\ l_result.raw_response = Wrap(l_wrap, l_body)
    /\ l_result.processing_time_seconds = now - start_time

\* A truncated object inside a fence with whitespace around it: the failure
\* carries the fenced text, not the cleaned one.
C11_Witness ==
  /\ Extracted /\ Answered
  /\ l_body = BodyTruncated /\ l_wrap.fenced /\ l_wrap.lead # << >>
  /\ ~IsRaised(l_result) /\ ~l_result.success
  /\ LlmClassify(l_result.error) = "InvalidResponse"
  /\ l_result.raw_response = response.text
  /\ l_result.raw_response # cleaned_response

\* The minimal rule set, as the specification words it: the value is a JSON
\* object, every required name is a key, and every property that is present
\* and declared string, number or array holds a value of that family (the
\* number family taken as Python's isinstance takes it: true and false
\* included).
InFamily(value, declared) ==
  CASE declared = "string" -> value.t = "str"
    [] declared = "number" -> value.t \in {"num", "bool"}
    [] declared = "array"  -> value.t = "arr"
    [] OTHER               -> TRUE

Conforms(data, schema) ==
  /\ data.t = "obj"
  /\ schema.has_required =>
       \A i \in 1..Len(schema.required) : schema.required[i] \in DOMAIN data.v
  /\ schema.has_properties =>
       \A i \in 1..Len(schema.properties) :
         schema.properties[i][1] \in DOMAIN data.v =>
           InFamily(data.v[schema.properties[i][1]], schema.properties[i][2])

\* The value json.loads gave for the sanitized response of this call.
Parsed == json_loads(Sanitize(response.text))

\* C12: a response that parses as a JSON object but violates the schema
\* yields a failure reported like a parse failure: classified
\* InvalidResponse, carrying the error, the raw response and the elapsed
\* time.
C12_ValidationFailureAsParseFailure ==
  (Extracted /\ Answered /\ Parsed.kind = "return" /\ Parsed.value.t = "obj"
     /\ ~Conforms(Parsed.value, json_schema)) =>
    /\ ~IsRaised(l_result)
    /\ ~l_result.success
    /\ DOMAIN l_result =
         {"success", "error", "raw_response", "processing_time_seconds"}
    /\ LlmClassify(l_result.error) = "InvalidResponse"
    /\ l_result.raw_response = response.text

\* C13: for every schema and every response whose sanitized text parses to a
\* JSON object passing the minimal rule set, the call returns a success whose
\* extracted_data is the parsed value and whose raw_response is the model's
\* text unmodified; other declared types, absent optional properties, extra
\* keys and a schema without required or without properties reject nothing.
C13_ConformingObjectSucceeds ==
  (Extracted /\ Answered /\ Parsed.kind = "return"
     /\ Conforms(Parsed.value, json_schema)) =>
    /\ ~IsRaised(l_result)
    /\ l_result.success
    /\ DOMAIN l_result =
         {"success", "extracted_data", "raw_response", "processing_time_seconds"}
    /\ l_result.extracted_data = Parsed.value
    /\ l_result.raw_response = Wrap(l_wrap, l_body)

\* An object with an array-typed property present, a property declared
\* integer holding a string, returned inside a json fence.
C13_Witness ==
  /\ Extracted /\ Answered
  /\ json_schema = SchemaMixed /\ l_body = BodyVendorArray
  /\ l_wrap.fenced /\ l_wrap.tag = TagJson
  /\ ~IsRaised(l_result) /\ l_result.success
  /\ l_result.extracted_data.v["total"].t = "str"
  /\ l_result.raw_response # cleaned_response

\* C14: whenever extract_data returns a success, its extracted_data conforms
\* to the schema under the minimal rule set, for every parsed JSON value the
\* model can return, top-level arrays, strings, numbers and null included.
C14_SuccessConforms ==
  (Extracted /\ ~IsRaised(l_result) /\ l_result.success) =>
    Conforms(l_result.extracted_data, json_schema)

\* The template with each placeholder token replaced by the document text,
\* the document's own braces left as they are.
RECURSIVE Substituted(_, _)
Substituted(t, doc) ==
  IF t = << >> THEN << >>
  ELSE IF Len(t) >= 3 /\ t[1] = "{" /\ t[2] = "document" /\ t[3] = "}"
       THEN doc \o Substituted(SubSeq(t, 4, Len(t)), doc)
  ELSE <<t[1]>> \o Substituted(Tail(t), doc)

ContainsPlaceholder(t) ==
  \E i \in 1..Len(t) - 2 : t[i] = "{" /\ t[i + 1] = "document" /\ t[i + 2] = "}"

\* The template holds "{{" or "}}", which format-style substitution reads as
\* an escaped brace.
HasDoubledBrace(t) ==
  \E i \in 1..Len(t) - 1 : t[i] \in {"{", "}"} /\ t[i + 1] = t[i]

\* What the model was given is what the claim says it is given.
SentAsClaimed ==
  /\ sent.user = Substituted(user_prompt_template, document_text)
  /\ sent.system = system_prompt \o SchemaInstruction \o Dumps(json_schema)

C16_TemplateNeverFails ==
  (Extracted /\ json_schema.serializable) =>
    invoked # << >>

\* The steps of the per-call state machine: from a position of extract_data
\* to the next.
CallEdges ==
  { <<"idle", "assemble">>,
    <<"assemble", "invoke">>, <<"assemble", "outer">>,
    <<"invoke", "sanitize">>, <<"invoke", "outer">>,
    <<"sanitize", "parse">>, <<"sanitize", "inner">>,
    <<"parse", "return">>, <<"parse", "inner">>,
    <<"inner", "done">>, <<"inner", "outer">>,
    <<"return", "done">>, <<"outer", "done">> }

\* A step keeps to the state machine: it follows an edge; the backend has
\* been called at most once, it is the configured one, and it was given the
\* assembled prompts; sanitizing, parsing and validating come after its
\* call; an outcome exists exactly when the call has returned.
CallStepOk ==
  /\ <<l_pc, l_pc'>> \in CallEdges
  /\ Len(invoked') <= 1
  /\ invoked' # << >> =>
       /\ invoked' = <<provider>>
       /\ sent' = [system |-> full_system_prompt, user |-> user_prompt]
       /\ l_pc \notin {"idle", "assemble"}
  /\ invoked' # invoked => l_pc = "invoke"
  /\ l_pc' \in {"sanitize", "parse", "return", "inner"} => invoked' # << >>
  /\ (l_result' # NoResult) <=> (l_pc' = "done")
  /\ l_pc' = "done" => ~IsRaised(l_result')

\* C17: each call follows started -> prompt-assembled -> model-invoked ->
\* response-sanitized -> parsed or failed -> outcome-returned: the backend is
\* invoked at most once and only after the prompt is assembled, sanitizing,
\* parsing and validating happen only after the model returned, nothing is
\* retried, only the configured backend is called, and every call
\* eventually returns exactly one outcome.
C17_CallStateMachine ==
  /\ [][CallStepOk]_vars
  /\ (l_pc = "assemble") ~> (l_pc = "done")

\* A call that went through every position of the successful path, one
\* backend call made.
C17_Witness ==
  /\ l_pc = "done" /\ invoked = <<provider>> /\ provider = "anthropic"
  /\ ~IsRaised(l_result) /\ l_result.success
  /\ cleaned_response # << >>

-----------------------------------------------------------------------------
\* The claims about concurrent calls and about durable storage.

\* The outcome tag of a returned convert_document call.
TagOf(r) == IF IsSuccess(r) THEN "Success" ELSE Classify(r.error)

\* The tag the call of p has when it runs alone and nothing faults: decided
\* by its arguments and by what its own converter run did.
AloneTag(p) ==
  IF ~Exists(input_path[p]) THEN "NotFound"
  ELSE IF output_format[p] \notin SupportedFormats THEN "UnsupportedFormat"
  ELSE IF convOutcome[p] # "exit0_file" THEN "ConversionFailed"
  ELSE "Success"

ConvertReturned(p) ==
  pc[p] = "done" /\ entry[p] = "convert_document" /\ ~IsRaised(result[p])

InConvert(p) == pc[p] \in {"cd_run", "cd_find", "cd_move", "cd_copy"}

\* Each call in flight has a scratch directory of its own, and the file it
\* located there was written by its own converter run.
C19_OwnScratch ==
  /\ \A p, q \in Procs :
       (p # q /\ InConvert(p) /\ InConvert(q)) => temp_dir[p] # temp_dir[q]
  /\ \A p \in Procs :
       pc[p] \in {"cd_move", "cd_copy"} => converted_file[p].content.call = callId[p]

\* The tag of a returned call is the one it has alone, or a fault of its own
\* relocation step.
C19_TagAsAlone ==
  \A p \in Procs :
    ConvertReturned(p) => TagOf(result[p]) \in {AloneTag(p), "Fault"}

\* Two successful calls with one output name have both returned: the file at
\* that name is the whole output of one of them.
C19_SharedNameOneOutput ==
  \A p, q \in Procs :
    (/\ p # q /\ ConvertReturned(p) /\ ConvertReturned(q)
     /\ IsSuccess(result[p]) /\ IsSuccess(result[q])
     /\ result[p].output_path = result[q].output_path) =>
      /\ result[p].output_path \in DOMAIN durable
      /\ durable[result[p].output_path]
           \in {Content(callId[p], <<65>>), Content(callId[q], <<65>>)}

\* C19: concurrent convert_document calls on one service interfere only
\* through durable storage: each uses its own scratch directory and finds only
\* its own converter's file, each has the outcome tag it has alone, and when
\* two successful calls share an output name the file at that name, after both
\* returned, is the output of one of them.
C19_ConcurrentIsolation ==
  /\ C19_OwnScratch
  /\ C19_TagAsAlone
  /\ C19_SharedNameOneOutput

\* C20: convert_document writes to durable storage only on success: a call
\* that returned a failure outcome wrote no durable file, and a call that
\* returned success wrote exactly the file at its output_path.
C20_DurableWriteOnlyOnSuccess ==
  \A p \in Procs :
    ConvertReturned(p) =>
      /\ IsFailure(result[p]) => wrote[p] = {}
      /\ IsSuccess(result[p]) => wrote[p] = {result[p].output_path}

-----------------------------------------------------------------------------
\* The claim about convert_artifact.

\* ConvertResults summarises convert_document: every outcome a call returns
\* in the step-by-step model is one of them.
ConvertResultsCover ==
  \A p \in Procs :
    (pc[p] = "done" /\ entry[p] = "convert_document") =>
      result[p] \in ConvertResults(input_path[p], output_format[p])

\* The rows of the table for one (artifact_id, format).
RowsFor(table, pair) ==
  {i \in 1..Len(table) :
     table[i].artifact_id = pair[1] /\ table[i].format = pair[2]}

Pairs == RequestIds \X ApiFormats

\* At most one record per pair, one record per conversion the endpoint ran,
\* and nothing for an artifact the table does not hold.
OneRecordPerPair ==
  \A pair \in Pairs :
    /\ Cardinality(RowsFor(conversions, pair)) <= 1
    /\ invocations[pair] = Cardinality(RowsFor(conversions, pair))
    /\ pair[1] \notin DOMAIN artifacts => invocations[pair] = 0

\* What one request does, by the case it falls in.
RequestStepOk ==
  LET pair == <<api_request'.artifact_id, api_request'.format>>
      rows == RowsFor(conversions, pair)
  IN
  requests' = requests + 1 =>
    IF pair[1] \notin DOMAIN artifacts
    THEN /\ conversions' = conversions
         /\ invocations' = invocations
         /\ api_result' = NoResult
         /\ api_response'.status = 404
    ELSE IF rows # {}
    THEN /\ conversions' = conversions
         /\ invocations' = invocations
         /\ api_result' = NoResult
         /\ \E i \in rows :
              api_response' = [status |-> 200,
                               body |-> Some(ConversionResponse(conversions[i]))]
    ELSE /\ api_result' # NoResult
         /\ invocations' = [invocations EXCEPT ![pair] = 1]
         /\ Len(conversions') = Len(conversions) + 1
         /\ SubSeq(conversions', 1, Len(conversions)) = conversions
         /\ LET row == conversions'[Len(conversions')] IN
              /\ row.artifact_id = pair[1] /\ row.format = pair[2]
              /\ row.success = api_result'.success
              /\ row.success => row.error_message = None
              /\ ~row.success => row.error_message = Some(api_result'.error)
              /\ api_response' = [status |-> 200,
                                  body |-> Some(ConversionResponse(row))]

\* C21: after any sequence of convert requests there is at most one Conversion
\* record per (artifact_id, format); the first request for a pair runs
\* convert_document once and stores its outcome, success or failure; a later
\* request for the pair returns the stored record unchanged and runs no
\* conversion; a request for an unknown artifact stores and runs nothing.
C21_ConversionCachedPerPair ==
  /\ []OneRecordPerPair
  /\ [][RequestStepOk]_vars

\* A pair whose first conversion failed was requested again: the stored
\* failure came back and convert_document was not run a second time.
C21_Witness ==
  /\ requests >= 2
  /\ api_result = NoResult
  /\ api_response.status = 200
  /\ ~api_response.body.value.success
  /\ invocations[<<api_request.artifact_id, api_request.format>>] = 1
  /\ api_response.body.value.conversion_date < requests

============================================================================
